---- MODULE Spec2Model ----
(***************************************************************************)
(* populse_db: the Database API of database.py over a relational backend.  *)
(*                                                                         *)
(* The model keeps apart the three places where database.py keeps state:   *)
(*   - the SQL backend reached through self.session (catalog tables        *)
(*     "collection" and "field", one table per collection), with the       *)
(*     snapshot the last commit left;                                      *)
(*   - the SQLAlchemy session (unflushed attribute writes, pending         *)
(*     objects, the "rolled back during flush" condition);                 *)
(*   - the Python objects of the Database instance (self.metadata,         *)
(*     self.table_classes, self.unsaved_modifications), which no           *)
(*     session.rollback() restores.                                        *)
(* The backend is modelled as fully transactional, DDL included.           *)
(***************************************************************************)
EXTENDS Integers, Sequences, FiniteSets, TLC

\* Number of API calls explored from the opening of the database.
MaxOps == 3

-----------------------------------------------------------------------------
(* Names *)

COLLECTION_TABLE == "collection"
FIELD_TABLE == "field"
CatalogTables == {COLLECTION_TABLE, FIELD_TABLE}

CollNames == {"c1", "c2"}
PkNames == {"name", "id"}
\* The field names the main specifications call with, and a name that
\* differs from one of them by letter case only.
SpecFields == PkNames \cup {"f1"}
FieldNames == SpecFields \cup {"F1"}
DocNames == {"d1", "d2"}

BackupName(c) == IF c = "c1" THEN "c1_backup" ELSE "c2_backup"
TableNames == CollNames \cup {BackupName(c) : c \in CollNames}
AllTables == CatalogTables \cup TableNames

\* hashlib.md5 of the name in lower case: what the column name would be if
\* letter case did not count.
md5_folded(field) ==
  CASE field = "name" -> "b068"
    [] field = "id"   -> "b80b"
    [] OTHER          -> "bd19"

\* hashlib.md5(field.encode('utf-8')).hexdigest(): a fixed-width hexadecimal
\* digest, here the leading digits of the real digests.
md5(field) ==
  CASE field = "name" -> "b068"
    [] field = "id"   -> "b80b"
    [] field = "f1"   -> "bd19"
    [] field = "F1"   -> "e1df"
    [] OTHER          -> "3667"

ColNames == PkNames \cup {md5(f) : f \in FieldNames}

\* The characters of the names that the model uses, for Python's `a in b`
\* on strings.
Chars(n) ==
  CASE n = "name" -> <<"n", "a", "m", "e">>
    [] n = "id"   -> <<"i", "d">>
    [] n = "f1"   -> <<"f", "1">>
    [] n = "b068" -> <<"b", "0", "6", "8">>
    [] n = "b80b" -> <<"b", "8", "0", "b">>
    [] n = "bd19" -> <<"b", "d", "1", "9">>
    [] n = "3667" -> <<"3", "6", "6", "7">>
    [] n = "c1"   -> <<"c", "1">>
    [] n = "c2"   -> <<"c", "2">>
    [] n = "c1_backup" -> <<"c", "1", "_", "b", "a", "c", "k", "u", "p">>
    [] n = "c2_backup" -> <<"c", "2", "_", "b", "a", "c", "k", "u", "p">>
    [] OTHER      -> <<"?">>

\* Python: inner in outer, for two strings given by their characters.
IsSubstring(inner, outer) ==
  \E i \in 0..(Len(outer) - Len(inner)) :
    \A j \in 1..Len(inner) : outer[i + j] = inner[j]

\* str(column) of a column bound to a table: "<table>.<column>".
ColumnStr(table, col) == Chars(table) \o <<".">> \o Chars(col)

-----------------------------------------------------------------------------
(* Values.  Every Python value is a record [k, s, items]: k the runtime    *)
(* type, s the scalar payload, items the elements of a list.               *)

Scalar(k, s) == [k |-> k, s |-> s, items |-> <<>>]
NoneV == Scalar("None", "")
PyStr(s) == Scalar("str", s)
PyInt(s) == Scalar("int", s)
PyFloat(s) == Scalar("float", s)
PyBool(s) == Scalar("bool", s)
PyList(items) == [k |-> "list", s |-> "", items |-> items]
\* A value that stands for a raised exception where a value was expected.
Raised(exc) == Scalar("raise", exc)
IsRaised(v) == v.k = "raise"

\* Python ==: equal type and payload, or equal numbers (1 == 1.0 == True).
NumOf(v) ==
  CASE v.k = "int" -> v.s
    [] v.k = "float" /\ v.s = "1.0" -> "1"
    [] v.k = "float" /\ v.s = "2.0" -> "2"
    [] v.k = "bool" /\ v.s = "True" -> "1"
    [] v.k = "bool" /\ v.s = "False" -> "0"
    [] OTHER -> "f:" \o v.s
IsNum(v) == v.k \in {"int", "float", "bool"}
ScalarEq(a, b) ==
  IF IsNum(a) /\ IsNum(b) THEN NumOf(a) = NumOf(b) ELSE a.k = b.k /\ a.s = b.s
PyEq(a, b) ==
  IF a.k = "list" /\ b.k = "list"
  THEN /\ Len(a.items) = Len(b.items)
       /\ \A i \in 1..Len(a.items) : ScalarEq(a.items[i], b.items[i])
  ELSE a.k # "list" /\ b.k # "list" /\ ScalarEq(a, b)

-----------------------------------------------------------------------------
(* Field types (populse_db.database_model) *)

FIELD_TYPE_STRING == "string"
FIELD_TYPE_INTEGER == "int"
FIELD_TYPE_FLOAT == "float"
FIELD_TYPE_BOOLEAN == "boolean"
FIELD_TYPE_DATE == "date"
FIELD_TYPE_DATETIME == "datetime"
FIELD_TYPE_TIME == "time"
ScalarTypes == {FIELD_TYPE_STRING, FIELD_TYPE_INTEGER, FIELD_TYPE_FLOAT,
                FIELD_TYPE_BOOLEAN, FIELD_TYPE_DATE, FIELD_TYPE_DATETIME,
                FIELD_TYPE_TIME}
ListOf(t) ==
  CASE t = "string" -> "list_string"
    [] t = "int" -> "list_int"
    [] t = "float" -> "list_float"
    [] t = "boolean" -> "list_boolean"
    [] t = "date" -> "list_date"
    [] t = "datetime" -> "list_datetime"
    [] OTHER -> "list_time"
LIST_TYPES == {ListOf(t) : t \in ScalarTypes}
ALL_TYPES == ScalarTypes \cup LIST_TYPES
\* valid_type.replace("list_", "")
ElementType(t) == CHOOSE e \in ScalarTypes : ListOf(e) = t

\* check_type_value(value, valid_type)
ScalarTypeOk(value, valid_type) ==
  \/ valid_type = FIELD_TYPE_INTEGER /\ value.k = "int"
  \/ valid_type = FIELD_TYPE_FLOAT /\ value.k = "int"
  \/ valid_type = FIELD_TYPE_FLOAT /\ value.k = "float"
  \/ valid_type = FIELD_TYPE_BOOLEAN /\ value.k = "bool"
  \/ valid_type = FIELD_TYPE_STRING /\ value.k = "str"
  \/ valid_type = FIELD_TYPE_DATETIME /\ value.k = "datetime"
  \/ valid_type = FIELD_TYPE_TIME /\ value.k = "time"
  \/ valid_type = FIELD_TYPE_DATE /\ value.k = "date"

check_type_value(value, valid_type) ==
  IF valid_type = "None" THEN FALSE
  ELSE IF value.k = "None" THEN TRUE
  ELSE IF ScalarTypeOk(value, valid_type) THEN TRUE
  ELSE IF valid_type \in LIST_TYPES /\ value.k = "list"
  THEN \A i \in 1..Len(value.items) :
         \/ value.items[i].k = "None"
         \/ ScalarTypeOk(value.items[i], ElementType(valid_type))
  ELSE FALSE

-----------------------------------------------------------------------------
(* Value codec *)

\* x.isoformat() of _list_item_to_string: the ISO-8601 text of a date, time
\* or datetime; any other object has no isoformat attribute.
IsoFormat(x) ==
  IF x.k \in {"date", "time", "datetime"} THEN PyStr(x.s)
  ELSE Raised("AttributeError")

\* dateutil.parser.parse(x) followed by .date(), .time() or nothing:
\* .time() gives the naive time, the UTC offset is dropped.
NaiveTime(s) == IF s = "12:00+01:00" THEN "12:00" ELSE s
ParseIso(column_type, x) ==
  IF x.k # "str" THEN Raised("TypeError")
  ELSE CASE column_type = "list_date" -> Scalar("date", x.s)
         [] column_type = "list_datetime" -> Scalar("datetime", x.s)
         [] OTHER -> Scalar("time", NaiveTime(x.s))

HasItemConverter(column_type) ==
  column_type \in {"list_date", "list_datetime", "list_time"}

\* repr() of one list element: the token written in the text.  None, numbers,
\* booleans and strings are written as Python literals; a float that is not
\* finite is written as the bare name inf or nan, and a date, time or
\* datetime object as a constructor call.
ReprToken(item) ==
  IF item.k = "float" /\ item.s \in {"inf", "nan"} THEN Scalar("name", item.s)
  ELSE IF item.k \in {"date", "time", "datetime"} THEN Scalar("call", item.s)
  ELSE item

\* ast.literal_eval of one token: only literals evaluate.
LiteralOk(token) == token.k \notin {"name", "call"}

\* list_to_column(column_type, value): repr of the list, its date, time and
\* datetime elements converted first.  The text is a record of kind "text"
\* holding the tokens.
list_to_column(column_type, value) ==
  LET list_value ==
        IF HasItemConverter(column_type)
        THEN [i \in 1..Len(value.items) |-> IsoFormat(value.items[i])]
        ELSE value.items
  IN IF \E i \in 1..Len(list_value) : IsRaised(list_value[i])
     THEN Raised("AttributeError")
     ELSE [k |-> "text", s |-> "",
           items |-> [i \in 1..Len(list_value) |-> ReprToken(list_value[i])]]

\* python_to_column(column_type, value)
python_to_column(column_type, value) ==
  IF value.k = "list" THEN list_to_column(column_type, value) ELSE value

\* column_to_list(column_type, value)
column_to_list(column_type, value) ==
  IF value.k = "None" THEN NoneV
  ELSE IF value.k # "text" THEN Raised("ValueError")
  ELSE IF \E i \in 1..Len(value.items) : ~LiteralOk(value.items[i])
  THEN Raised("ValueError")
  ELSE IF ~HasItemConverter(column_type) THEN PyList(value.items)
  ELSE LET parsed == [i \in 1..Len(value.items) |->
                        ParseIso(column_type, value.items[i])]
       IN IF \E i \in 1..Len(parsed) : IsRaised(parsed[i])
          THEN Raised("TypeError")
          ELSE PyList(parsed)

\* column_to_python(column_type, value)
column_to_python(column_type, value) ==
  IF column_type \in LIST_TYPES THEN column_to_list(column_type, value)
  ELSE value

-----------------------------------------------------------------------------
(* State *)

VARIABLES
  db,                     \* the backend as the session's transaction sees it
  committed,              \* the backend as of the last commit
  dirty,                  \* attribute writes on mapped rows not yet flushed
  pending,                \* objects given to session.add not yet flushed
  inactive,               \* the transaction was rolled back by a failed flush
  savepoints,             \* the backend as of each open SAVEPOINT, oldest first
  meta,                   \* self.metadata.tables: table names, in insertion order
  mtab,                   \* self.metadata.tables: the columns of each Table
  table_classes,          \* self.table_classes
  unsaved_modifications,  \* self.unsaved_modifications
  caches,                 \* self.caches
  collections,            \* self.collections: the collection rows looked up
  fields,                 \* self.fields: the field rows looked up
  names,                  \* self.names: the column names computed
  documents,              \* self.documents: the FieldRow of each document looked up
  stream,                 \* the generator filter_documents returned last
  last,                   \* the call just made, its arguments and its outcome
  pre,                    \* the state in which that call was made
  saved,                  \* what the lookups returned at the last save
  begun,                  \* what they returned at each start_transaction still open
  undone,                 \* what they returned at the start_transaction just undone
  only_removed,           \* every call before the last was a successful remove_field
  nops                    \* number of calls made

vars == <<db, committed, dirty, pending, inactive, savepoints, meta, mtab, table_classes,
          unsaved_modifications, caches, collections, fields, names, documents,
          stream,
          last, pre, saved, begun, undone, only_removed, nops>>

\* The state of the Database object and of its backend, as one value.
St == [db |-> db, committed |-> committed, dirty |-> dirty, pending |-> pending,
       inactive |-> inactive, savepoints |-> savepoints, meta |-> meta,
       mtab |-> mtab,
       table_classes |-> table_classes,
       unsaved_modifications |-> unsaved_modifications,
       caches |-> caches, collections |-> collections, fields |-> fields,
       names |-> names, documents |-> documents]

\* Arguments that are not strings (True, 1, None).
NotAString == "<not-a-str>"
IsStr(x) == x # NotAString

\* The rows of a table, by row identity (rowid).
RowIds == DocNames
NoRows == [r \in {} |-> [c \in {} |-> NoneV]]
NoTable == [exists |-> FALSE, cols |-> {}, pk |-> {}, rows |-> NoRows]
NoMTable == [exists |-> FALSE, cols |-> {}, pk |-> {}]
NoClass == [exists |-> FALSE, cols |-> {}, pk |-> {}, shared |-> FALSE]
NoField == [exists |-> FALSE, type |-> "None", description |-> "None"]
FieldRec(t, d) == [exists |-> TRUE, type |-> t, description |-> d]
NoRow == "NoRow"

EmptyDb == [coll |-> [c \in CollNames |-> NoRow],
            field |-> [cf \in CollNames \X FieldNames |-> NoField],
            tab |-> [t \in TableNames |-> NoTable]]

-----------------------------------------------------------------------------
(* The SQL statements the code sends through session.execute.  Each gives  *)
(* [ok, db]: whether the backend accepted it, and the backend after it.    *)

SqlFail(D) == [ok |-> FALSE, db |-> D]
SqlOk(D) == [ok |-> TRUE, db |-> D]

\* CREATE TABLE t (cols), pk the primary key columns.
SqlCreateTable(D, t, cols, pk) ==
  IF D.tab[t].exists \/ cols = {} THEN SqlFail(D)
  ELSE SqlOk([D EXCEPT !.tab[t] =
                [exists |-> TRUE, cols |-> cols, pk |-> pk, rows |-> NoRows]])

\* DROP TABLE t
SqlDropTable(D, t) ==
  IF ~D.tab[t].exists THEN SqlFail(D)
  ELSE SqlOk([D EXCEPT !.tab[t] = NoTable])

\* INSERT INTO target (names) SELECT selected FROM source.  The two column
\* lists are in the same order in the code, so they are sets here.  A
\* primary key column is NOT NULL: a row that leaves it out is rejected.
SqlInsertFromSelect(D, target, inserted, source, selected) ==
  IF \/ ~D.tab[target].exists \/ ~D.tab[source].exists
     \/ inserted = {} \/ inserted # selected
     \/ /\ ~(D.tab[target].pk \subseteq inserted)
        /\ DOMAIN D.tab[source].rows # {}
     \/ ~(inserted \subseteq D.tab[target].cols)
     \/ ~(selected \subseteq D.tab[source].cols)
     \/ DOMAIN D.tab[target].rows \cap DOMAIN D.tab[source].rows # {}
  THEN SqlFail(D)
  ELSE SqlOk([D EXCEPT !.tab[target].rows =
         [d \in DOMAIN D.tab[target].rows \cup DOMAIN D.tab[source].rows |->
            IF d \in DOMAIN D.tab[target].rows THEN D.tab[target].rows[d]
            ELSE [c \in D.tab[target].cols |->
                    IF c \in inserted THEN D.tab[source].rows[d][c] ELSE NoneV]]])

\* ALTER TABLE t ADD COLUMN col
SqlAddColumn(D, t, col) ==
  IF ~D.tab[t].exists \/ col \in D.tab[t].cols THEN SqlFail(D)
  ELSE SqlOk([D EXCEPT !.tab[t].cols = @ \cup {col},
                       !.tab[t].rows = [d \in DOMAIN @ |->
                           [c \in D.tab[t].cols \cup {col} |->
                              IF c = col THEN NoneV ELSE @[d][c]]]])

-----------------------------------------------------------------------------
(* The session *)

\* session.flush(): the pending objects are inserted and the attribute
\* writes are sent as UPDATEs.  A statement the backend rejects rolls the
\* transaction back and leaves the session unusable until rollback().
FlushInsertOk(D, p) ==
  IF p.kind = "collection" THEN D.coll[p.c] = NoRow
  ELSE ~D.field[<<p.c, p.f>>].exists

\* UPDATE t SET col = v WHERE <primary key> = <identity of the row>: the
\* row must still be there, and a primary key may neither become NULL nor
\* take the value of another row.
FlushUpdateOk(D, w) ==
  /\ D.tab[w.t].exists
  /\ w.col \in D.tab[w.t].cols
  /\ D.tab[w.t].pk # {}
  /\ w.r \in DOMAIN D.tab[w.t].rows
  /\ w.col \in D.tab[w.t].pk =>
       /\ w.v.k # "None"
       /\ \A r \in DOMAIN D.tab[w.t].rows \ {w.r} :
            ~ScalarEq(D.tab[w.t].rows[r][w.col], w.v)

FlushedDb(D, P, W) ==
  [coll |-> [c \in CollNames |->
               IF \E p \in P : p.kind = "collection" /\ p.c = c
               THEN (CHOOSE p \in P : p.kind = "collection" /\ p.c = c).pk
               ELSE D.coll[c]],
   field |-> [cf \in CollNames \X FieldNames |->
               IF \E p \in P : p.kind = "field" /\ <<p.c, p.f>> = cf
               THEN LET p == CHOOSE q \in P : q.kind = "field" /\ <<q.c, q.f>> = cf
                    IN FieldRec(p.type, p.description)
               ELSE D.field[cf]],
   tab |-> [t \in TableNames |->
              [D.tab[t] EXCEPT !.rows = [d \in DOMAIN @ |-> [c \in D.tab[t].cols |->
                 IF \E w \in W : w.t = t /\ w.r = d /\ w.col = c
                 THEN (CHOOSE w \in W : w.t = t /\ w.r = d /\ w.col = c).v
                 ELSE @[d][c]]]]]]

\* The backend as of the start of the innermost transaction of the session:
\* its last SAVEPOINT, or the last commit.
TransactionStart(S) ==
  IF S.savepoints = <<>> THEN S.committed ELSE S.savepoints[Len(S.savepoints)]

FlushFailed(S) ==
  [ok |-> FALSE, exc |-> "OperationalError",
   st |-> [S EXCEPT !.db = TransactionStart(S), !.pending = {}, !.dirty = {},
                    !.inactive = TRUE]]

flush(S) ==
  IF S.inactive THEN [ok |-> FALSE, exc |-> "InvalidRequestError", st |-> S]
  ELSE IF /\ \A p \in S.pending : FlushInsertOk(FlushedDb(S.db, S.pending \ {p}, {}), p)
          /\ \A w \in S.dirty : FlushUpdateOk(S.db, w)
  THEN [ok |-> TRUE, exc |-> "",
        st |-> [S EXCEPT !.db = FlushedDb(S.db, S.pending, S.dirty),
                         !.pending = {}, !.dirty = {}]]
  ELSE FlushFailed(S)


\* session.rollback()
rollback(S) ==
  [S EXCEPT !.db = TransactionStart(S), !.pending = {}, !.dirty = {},
            !.inactive = FALSE,
            !.savepoints = SubSeq(@, 1, Len(@) - 1)]

\* session.commit()
commit(S) ==
  LET f == flush(S)
  IN IF ~f.ok THEN f
     ELSE IF S.savepoints # <<>>
     THEN [ok |-> TRUE, exc |-> "",
           st |-> [f.st EXCEPT !.savepoints = SubSeq(@, 1, Len(@) - 1)]]
     ELSE [ok |-> TRUE, exc |-> "", st |-> [f.st EXCEPT !.committed = f.st.db]]

-----------------------------------------------------------------------------
(* Results of the handlers and of the lookups *)

Ok(S) == [st |-> S, res |-> "ok"]
Raise(S, exc) == [st |-> S, res |-> exc]

NoCollection == [err |-> "", found |-> FALSE, primary_key |-> "None"]
NoFieldRow == [err |-> "", found |-> FALSE, type |-> "None", description |-> "None"]
NoCells == [c \in {} |-> NoneV]
NoDocument == [err |-> "", found |-> FALSE, r |-> "None", cells |-> NoCells]

\* The names a document can have: those given to add_document and the
\* strings set_value can write.
DocKeys == DocNames \cup {"a"}

\* The caches of Database.__init__: dictionaries without keys.  An entry
\* that is set holds what the lookup returned; the entry of a document holds
\* the row of its FieldRow and the attributes that FieldRow.__getattr__ has
\* set on the FieldRow, and the columns of the class the row is an instance of.
NoAttributes == [col \in ColNames |-> [set |-> FALSE, v |-> NoneV]]
NoCollections == [c \in CollNames |-> [set |-> FALSE, row |-> NoCollection]]
NoFields == [cf \in CollNames \X FieldNames |-> [set |-> FALSE, row |-> NoFieldRow]]
NoNames == [cf \in CollNames \X FieldNames |-> [set |-> FALSE, name |-> "None"]]
NoDocuments ==
  [cd \in CollNames \X DocKeys |->
     [set |-> FALSE, found |-> FALSE, r |-> "None", attributes |-> NoAttributes,
      cols |-> {}]]

-----------------------------------------------------------------------------
(* UTILS *)

\* update_table_classes(): the classes are generated again from
\* self.metadata, one table after the other; automap generates no class for
\* a table without primary key, and reading that class raises
\* AttributeError with the dictionary filled up to there.
RECURSIVE MappedPrefix(_, _)
MappedPrefix(S, i) ==
  IF i > Len(S.meta) THEN Len(S.meta)
  ELSE IF S.meta[i] \in TableNames /\ S.mtab[S.meta[i]].pk = {} THEN i - 1
  ELSE MappedPrefix(S, i + 1)

update_table_classes(S) ==
  LET n == MappedPrefix(S, 1)
      mapped == {S.meta[i] : i \in 1..n}
      classes == [t \in AllTables |->
                    IF t \notin mapped THEN NoClass
                    ELSE IF t \in CatalogTables
                    THEN [exists |-> TRUE, cols |-> {}, pk |-> {}, shared |-> TRUE]
                    ELSE [exists |-> TRUE, cols |-> S.mtab[t].cols,
                          pk |-> S.mtab[t].pk, shared |-> TRUE]]
      S1 == [S EXCEPT !.table_classes = classes]
  IN IF n < Len(S.meta) THEN Raise(S1, "AttributeError") ELSE Ok(S1)

\* session.begin_nested(): the pending state is flushed and a SAVEPOINT is
\* taken.
begin_nested(S) ==
  LET f == flush(S)
  IN IF ~f.ok THEN f
     ELSE [ok |-> TRUE, exc |-> "",
           st |-> [f.st EXCEPT !.savepoints = Append(@, f.st.db)]]

\* start_transaction()
start_transaction(S) ==
  LET r == begin_nested(S)
  IN IF ~r.ok THEN Raise(r.st, r.exc) ELSE Ok(r.st)

\* save_modifications()
save_modifications(S) ==
  LET r == commit(S)
  IN IF ~r.ok THEN Raise(r.st, r.exc)
     ELSE Ok([r.st EXCEPT !.unsaved_modifications = FALSE])

\* unsave_modifications()
unsave_modifications(S) ==
  Ok([rollback(S) EXCEPT !.unsaved_modifications = FALSE])

\* has_unsaved_modifications()
has_unsaved_modifications(S) == S.unsaved_modifications

-----------------------------------------------------------------------------
(* COLLECTIONS *)

\* get_collection(name), caches off
get_collection(S, name) ==
  IF S.inactive THEN [NoCollection EXCEPT !.err = "InvalidRequestError"]
  ELSE IF ~S.table_classes[COLLECTION_TABLE].exists
  THEN [NoCollection EXCEPT !.err = "KeyError"]
  ELSE IF name \in CollNames /\ S.db.coll[name] # NoRow
  THEN [err |-> "", found |-> TRUE, primary_key |-> S.db.coll[name]]
  ELSE NoCollection

\* add_collection, from "Adding the collection row" on
add_collection_create(S, name, primary_key) ==
  LET S1 == [S EXCEPT !.pending = @ \cup
               {[kind |-> "collection", c |-> name, f |-> "None", pk |-> primary_key,
                 type |-> "None", description |-> "None"]}]
      \* Table(name, self.metadata, Column(primary_key, String, primary_key=True))
      S2 == [S1 EXCEPT !.mtab[name] = [exists |-> TRUE, cols |-> {primary_key},
                                       pk |-> {primary_key}],
                       !.meta = Append(@, name)]
      create == SqlCreateTable(S2.db, name, {primary_key}, {primary_key})
      S3 == [S2 EXCEPT !.db = create.db,
                       !.table_classes[name] =
                          [exists |-> TRUE, cols |-> {primary_key},
                           pk |-> {primary_key}, shared |-> TRUE]]
      S4 == [S3 EXCEPT !.db.field[<<name, primary_key>>] =
                          FieldRec(FIELD_TYPE_STRING, "Primary_key")]
      f == flush(S4)
  IN IF S1.mtab[name].exists THEN Raise(S1, "InvalidRequestError")
     ELSE IF ~create.ok THEN Raise(S2, "OperationalError")
     ELSE IF S3.db.field[<<name, primary_key>>].exists
     THEN Raise(S3, "IntegrityError")
     ELSE IF ~f.ok THEN Raise(f.st, f.exc)
     ELSE Ok(f.st)

\* add_collection returning where it raises for a name in use
add_collection_returning(S, name, primary_key) ==
  LET collection_row == get_collection(S, name)
  IN IF collection_row.err # "" THEN Raise(S, collection_row.err)
     ELSE IF collection_row.found \/ S.table_classes[name].exists THEN Ok(S)
     ELSE add_collection_create(S, name, primary_key)

\* add_collection(name, primary_key)
add_collection(S, name, primary_key) ==
  LET collection_row == get_collection(S, name)
  IN IF collection_row.err # "" THEN Raise(S, collection_row.err)
     ELSE IF collection_row.found \/ S.table_classes[name].exists
     THEN Raise(S, "ValueError")
     ELSE add_collection_create(S, name, primary_key)

-----------------------------------------------------------------------------
(* FIELDS *)

\* get_field(collection, name), caches off
get_field(S, collection, name) ==
  IF S.inactive THEN [NoFieldRow EXCEPT !.err = "InvalidRequestError"]
  ELSE IF ~S.table_classes[FIELD_TABLE].exists
  THEN [NoFieldRow EXCEPT !.err = "KeyError"]
  ELSE IF /\ collection \in CollNames /\ name \in FieldNames
          /\ S.db.field[<<collection, name>>].exists
  THEN [err |-> "", found |-> TRUE,
        type |-> S.db.field[<<collection, name>>].type,
        description |-> S.db.field[<<collection, name>>].description]
  ELSE NoFieldRow

\* get_fields_names(collection): the names, or the exception of the query
get_fields_names(S, collection) ==
  IF S.inactive THEN [err |-> "InvalidRequestError", names |-> {}]
  ELSE IF ~S.table_classes[FIELD_TABLE].exists THEN [err |-> "KeyError", names |-> {}]
  ELSE IF collection \notin CollNames THEN [err |-> "", names |-> {}]
  ELSE [err |-> "",
        names |-> {f \in FieldNames : S.db.field[<<collection, f>>].exists}]

\* get_fields(collection): the field rows, or the exception of the query
get_fields(S, collection) ==
  IF S.inactive THEN [err |-> "InvalidRequestError", rows |-> {}]
  ELSE IF ~S.table_classes[FIELD_TABLE].exists THEN [err |-> "KeyError", rows |-> {}]
  ELSE IF collection \notin CollNames THEN [err |-> "", rows |-> {}]
  ELSE [err |-> "",
        rows |-> {[name |-> f, type |-> S.db.field[<<collection, f>>].type,
                   description |-> S.db.field[<<collection, f>>].description] :
                    f \in {g \in FieldNames : S.db.field[<<collection, g>>].exists}}]

\* field_name_to_column_name(collection, field), caches off
field_name_to_column_name(S, collection, field) ==
  LET collection_row == get_collection(S, collection)
  IN IF ~collection_row.found THEN "None"
     ELSE IF field = collection_row.primary_key THEN field
     ELSE md5(field)

\* add_field, from "Adding the field to the field table" on
add_field_column(S, collection, name, field_type, description) ==
  LET S1 == [S EXCEPT !.pending = @ \cup
               {[kind |-> "field", c |-> collection, f |-> name, pk |-> "None",
                 type |-> field_type, description |-> description]}]
      column == field_name_to_column_name(S, collection, name)
      alter == SqlAddColumn(S1.db, collection, column)
      S2 == [S1 EXCEPT !.db = alter.db]
      \* self.table_classes[collection].__table__.append_column(column)
      S3 == [S2 EXCEPT !.table_classes[collection].cols = @ \cup {column},
                       !.mtab[collection].cols =
                          IF S2.table_classes[collection].shared
                          THEN @ \cup {column} ELSE @,
                       !.unsaved_modifications = TRUE]
      f == flush(S3)
      u == update_table_classes(f.st)
  IN IF ~alter.ok THEN Raise(S1, "OperationalError")
     ELSE IF ~S2.table_classes[collection].exists THEN Raise(S2, "KeyError")
     ELSE IF ~f.ok THEN Raise(f.st, f.exc)
     ELSE u

\* add_field without the check of the field type
add_field_any_type(S, collection, name, field_type, description) ==
  LET collection_row == get_collection(S, collection)
      field_row == get_field(S, collection, name)
  IN IF ~IsStr(name) \/ ~IsStr(collection) THEN Raise(S, "ValueError")
     ELSE IF collection_row.err # "" THEN Raise(S, collection_row.err)
     ELSE IF ~collection_row.found THEN Raise(S, "ValueError")
     ELSE IF field_row.found THEN Raise(S, "ValueError")
     ELSE add_field_column(S, collection, name, field_type, description)

\* add_field(collection, name, field_type, description, flush=True)
add_field(S, collection, name, field_type, description) ==
  LET collection_row == get_collection(S, collection)
      field_row == get_field(S, collection, name)
  IN IF ~IsStr(name) \/ ~IsStr(collection) THEN Raise(S, "ValueError")
     ELSE IF collection_row.err # "" THEN Raise(S, collection_row.err)
     ELSE IF ~collection_row.found THEN Raise(S, "ValueError")
     ELSE IF field_row.found THEN Raise(S, "ValueError")
     ELSE IF field_type \notin ALL_TYPES THEN Raise(S, "ValueError")
     ELSE add_field_column(S, collection, name, field_type, description)

\* remove_field, from the column name of the field on.  The backend rejects
\* a statement the tables do not allow, and the statement numbered fails
\* (1 to 6 the statements executed, 7 the DELETE of the flush) for a reason
\* of its own; 0 numbers no statement.
remove_field_steps(S, collection, field, fails) ==
  LET field_name == field_name_to_column_name(S, collection, field)
      backup == BackupName(collection)
      \* old_document_table = Table(collection, self.metadata)
      S0 == IF S.mtab[collection].exists THEN S
            ELSE [S EXCEPT !.mtab[collection].exists = TRUE,
                           !.meta = Append(@, collection)]
      old == S0.mtab[collection]
      remaining_columns ==
        {c \in old.cols : ~IsSubstring(Chars(field_name), Chars(c))}
      \* document_backup_table = Table(collection + "_backup", self.metadata)
      kept == {c \in old.cols :
                 ~IsSubstring(Chars(field_name), ColumnStr(collection, c))}
      S1 == [S0 EXCEPT !.mtab[backup] =
                          [exists |-> TRUE, cols |-> @.cols \cup kept,
                           pk |-> @.pk \cup (old.pk \cap kept)],
                       !.meta = IF S0.mtab[backup].exists THEN @
                                ELSE Append(@, backup)]
      document_backup_table == S1.mtab[backup]
      create_backup == SqlCreateTable(S1.db, backup, document_backup_table.cols,
                                      document_backup_table.pk)
      fill_backup == SqlInsertFromSelect(create_backup.db, backup,
                        remaining_columns, collection, remaining_columns)
      \* self.metadata.remove(old_document_table)
      S2 == [S1 EXCEPT !.db = fill_backup.db,
                       !.mtab[collection] = NoMTable,
                       !.meta = SelectSeq(@, LAMBDA t : t # collection),
                       !.table_classes[collection].shared = FALSE]
      drop_old == SqlDropTable(S2.db, collection)
      \* new_document_table = Table(collection, self.metadata)
      S3 == [S2 EXCEPT !.db = drop_old.db,
                       !.mtab[collection] = document_backup_table,
                       !.meta = Append(@, collection)]
      create_new == SqlCreateTable(S3.db, collection, document_backup_table.cols,
                                   document_backup_table.pk)
      selected == {c \in document_backup_table.cols :
                     ~IsSubstring(Chars(field_name), Chars(c))}
      fill_new == SqlInsertFromSelect(create_new.db, collection,
                     remaining_columns, backup, selected)
      drop_backup == SqlDropTable(fill_new.db, backup)
      \* self.session.delete(field_row), sent by the flush
      S4 == [S3 EXCEPT !.db = [drop_backup.db EXCEPT
                                 !.field[<<collection, field>>] = NoField]]
      f == IF fails = 7 /\ ~S4.inactive THEN FlushFailed(S4) ELSE flush(S4)
      u == update_table_classes(f.st)
  IN IF ~create_backup.ok \/ fails = 1 THEN Raise(S1, "OperationalError")
     ELSE IF ~fill_backup.ok \/ fails = 2
     THEN Raise([S1 EXCEPT !.db = create_backup.db], "OperationalError")
     ELSE IF ~drop_old.ok \/ fails = 3 THEN Raise(S2, "OperationalError")
     ELSE IF ~create_new.ok \/ fails = 4 THEN Raise(S3, "OperationalError")
     ELSE IF ~fill_new.ok \/ fails = 5
     THEN Raise([S3 EXCEPT !.db = create_new.db], "OperationalError")
     ELSE IF ~drop_backup.ok \/ fails = 6
     THEN Raise([S3 EXCEPT !.db = fill_new.db], "OperationalError")
     ELSE IF ~f.ok THEN Raise(f.st, f.exc)
     ELSE IF u.res # "ok" THEN u
     ELSE Ok([u.st EXCEPT !.unsaved_modifications = TRUE])

\* remove_field, from the column name of the field on, on a backend that
\* rejects only what the tables do not allow
remove_field_rebuild(S, collection, field) ==
  remove_field_steps(S, collection, field, 0)

\* remove_field(collection, field) on a backend where the statement
\* numbered fails
remove_field_failing(S, collection, field, fails) ==
  LET collection_row == get_collection(S, collection)
      field_row == get_field(S, collection, field)
  IN IF ~IsStr(field) \/ ~IsStr(collection) THEN Raise(S, "ValueError")
     ELSE IF collection_row.err # "" THEN Raise(S, collection_row.err)
     ELSE IF ~collection_row.found THEN Raise(S, "ValueError")
     ELSE IF ~field_row.found THEN Raise(S, "ValueError")
     ELSE remove_field_steps(S, collection, field, fails)

\* remove_field without the check that the field exists
remove_field_any_field(S, collection, field) ==
  LET collection_row == get_collection(S, collection)
  IN IF ~IsStr(field) \/ ~IsStr(collection) THEN Raise(S, "ValueError")
     ELSE IF collection_row.err # "" THEN Raise(S, collection_row.err)
     ELSE IF ~collection_row.found THEN Raise(S, "ValueError")
     ELSE remove_field_rebuild(S, collection, field)

\* remove_field(collection, field)
remove_field(S, collection, field) ==
  LET collection_row == get_collection(S, collection)
      field_row == get_field(S, collection, field)
  IN IF ~IsStr(field) \/ ~IsStr(collection) THEN Raise(S, "ValueError")
     ELSE IF collection_row.err # "" THEN Raise(S, collection_row.err)
     ELSE IF ~collection_row.found THEN Raise(S, "ValueError")
     ELSE IF ~field_row.found THEN Raise(S, "ValueError")
     ELSE remove_field_rebuild(S, collection, field)

-----------------------------------------------------------------------------
(* DOCUMENTS *)

\* A document given to add_document: its name alone, or a dictionary.
StrDoc(name) == [form |-> "str", name |-> name, fields |-> NoCells]
DictDoc(values) == [form |-> "dict", name |-> "None", fields |-> values]

\* The value a mapped row shows for a column: the attribute written last,
\* flushed or not.
Attr(S, t, r, col) ==
  IF \E w \in S.dirty : w.t = t /\ w.r = r /\ w.col = col
  THEN (CHOOSE w \in S.dirty : w.t = t /\ w.r = r /\ w.col = col).v
  ELSE S.db.tab[t].rows[r][col]

\* setattr(document_row.row, column, value): an attribute write the session
\* keeps until the next flush; on a name that is no mapped column it is a
\* plain Python attribute.
SetAttr(S, t, r, col, value) ==
  IF col \notin S.table_classes[t].cols THEN S
  ELSE [S EXCEPT !.dirty =
          {w \in @ : ~(w.t = t /\ w.r = r /\ w.col = col)}
            \cup {[t |-> t, r |-> r, col |-> col, v |-> value]}]

\* get_document(collection, document), caches off: the row of the mapped
\* class whose primary key is document, wrapped in a FieldRow.
get_document(S, collection, document) ==
  LET collection_row == get_collection(S, collection)
      primary_key == collection_row.primary_key
      class == S.table_classes[collection]
      table == S.db.tab[collection]
      found == {r \in DOMAIN table.rows :
                  ScalarEq(table.rows[r][primary_key], PyStr(document))}
      r == CHOOSE x \in found : TRUE
  IN IF collection_row.err # "" THEN [NoDocument EXCEPT !.err = collection_row.err]
     ELSE IF ~collection_row.found THEN NoDocument
     ELSE IF ~class.exists THEN [NoDocument EXCEPT !.err = "KeyError"]
     ELSE IF primary_key \notin class.cols
     THEN [NoDocument EXCEPT !.err = "AttributeError"]
     ELSE IF ~table.exists \/ ~(class.cols \subseteq table.cols)
     THEN [NoDocument EXCEPT !.err = "OperationalError"]
     ELSE IF found = {} THEN NoDocument
     ELSE [err |-> "", found |-> TRUE, r |-> r,
           cells |-> [c \in class.cols |-> Attr(S, collection, r, c)]]

\* FieldRow.__getattr__(name) on the row of a document of the collection
FieldRow_getattr(S, collection, document_row, name) ==
  IF name \in DOMAIN document_row.cells THEN document_row.cells[name]
  ELSE IF md5(name) \notin DOMAIN document_row.cells THEN Raised("AttributeError")
  ELSE IF ~get_field(S, collection, name).found THEN Raised("AttributeError")
  ELSE column_to_python(get_field(S, collection, name).type,
                        document_row.cells[md5(name)])

\* get_documents_names(collection): the names, or the exception of the query
get_documents_names(S, collection) ==
  LET collection_row == get_collection(S, collection)
      primary_key == collection_row.primary_key
      class == S.table_classes[collection]
      table == S.db.tab[collection]
  IN IF collection_row.err # "" THEN [err |-> collection_row.err, names |-> {}]
     ELSE IF ~collection_row.found THEN [err |-> "", names |-> {}]
     ELSE IF ~class.exists THEN [err |-> "KeyError", names |-> {}]
     ELSE IF primary_key \notin class.cols THEN [err |-> "AttributeError", names |-> {}]
     ELSE IF ~table.exists \/ primary_key \notin table.cols
     THEN [err |-> "OperationalError", names |-> {}]
     ELSE [err |-> "",
           names |-> {table.rows[r][primary_key].s : r \in DOMAIN table.rows}]

\* get_documents(collection): the rows of the mapped class, each wrapped in
\* a FieldRow, or the exception of the query
get_documents(S, collection) ==
  LET collection_row == get_collection(S, collection)
      class == S.table_classes[collection]
      table == S.db.tab[collection]
  IN IF collection_row.err # "" THEN [err |-> collection_row.err, rows |-> {}]
     ELSE IF ~collection_row.found THEN [err |-> "", rows |-> {}]
     ELSE IF ~class.exists THEN [err |-> "KeyError", rows |-> {}]
     ELSE IF ~table.exists \/ ~(class.cols \subseteq table.cols)
     THEN [err |-> "OperationalError", rows |-> {}]
     ELSE [err |-> "",
           rows |-> {[c \in class.cols |-> Attr(S, collection, r, c)] :
                       r \in DOMAIN table.rows}]

\* The value a column of the field's type takes for a bound value: a float
\* column holds floats.
ColumnBind(field_type, value) ==
  IF field_type = FIELD_TYPE_FLOAT /\ value.k = "int"
  THEN PyFloat(value.s \o ".0") ELSE value

\* INSERT INTO table (the document's columns), then the rest of the flush.
InsertDocument(S, collection, document) ==
  LET table == S.db.tab[collection]
      r == CHOOSE x \in RowIds : x \notin DOMAIN table.rows
      ok == /\ table.exists
            /\ DOMAIN document \subseteq table.cols
            /\ \A p \in table.pk :
                 /\ p \in DOMAIN document
                 /\ document[p].k # "None"
                 /\ \A x \in DOMAIN table.rows : ~ScalarEq(table.rows[x][p], document[p])
            /\ \E x \in RowIds : x \notin DOMAIN table.rows
      S1 == [S EXCEPT !.db.tab[collection].rows =
               [x \in DOMAIN @ \cup {r} |->
                  IF x = r
                  THEN [c \in table.cols |->
                          IF c \in DOMAIN document THEN document[c] ELSE NoneV]
                  ELSE @[x]]]
  IN IF S.inactive THEN [ok |-> FALSE, exc |-> "InvalidRequestError", st |-> S]
     ELSE IF ~ok THEN FlushFailed(S)
     ELSE flush(S1)

\* add_document, from the column names of the dictionary on
add_document_row(S, collection, document) ==
  LET primary_key == get_collection(S, collection).primary_key
      keys == DOMAIN document.fields
      \* Putting valid columns names in the dictionary
      new_dict ==
        IF document.form = "str" THEN (primary_key :> PyStr(document.name))
        ELSE [c \in {field_name_to_column_name(S, collection, k) : k \in keys} |->
                LET k == CHOOSE x \in keys :
                           field_name_to_column_name(S, collection, x) = c
                    field_row == get_field(S, collection, k)
                IN ColumnBind(field_row.type,
                     python_to_column(field_row.type, document.fields[k]))]
      ins == InsertDocument(S, collection, new_dict)
  IN IF \E k \in keys : ~get_field(S, collection, k).found
     THEN Raise(S, "AttributeError")
     ELSE IF \E c \in DOMAIN new_dict : IsRaised(new_dict[c])
     THEN Raise(S, "AttributeError")
     ELSE IF ~(DOMAIN new_dict \subseteq S.table_classes[collection].cols)
     THEN Raise(S, "TypeError")
     ELSE IF ~ins.ok THEN Raise(ins.st, ins.exc)
     ELSE Ok([ins.st EXCEPT !.unsaved_modifications = TRUE])

\* add_document without the check that the document already exists
add_document_any_name(S, collection, document) ==
  LET collection_row == get_collection(S, collection)
      primary_key == collection_row.primary_key
  IN IF ~IsStr(collection) THEN Raise(S, "ValueError")
     ELSE IF collection_row.err # "" THEN Raise(S, collection_row.err)
     ELSE IF ~collection_row.found THEN Raise(S, "ValueError")
     ELSE IF document.form = "dict" /\ primary_key \notin DOMAIN document.fields
     THEN Raise(S, "KeyError")
     ELSE add_document_row(S, collection, document)

\* add_document that leaves out the entries of the mapping that name no field
add_document_known_fields(S, collection, document) ==
  LET collection_row == get_collection(S, collection)
      primary_key == collection_row.primary_key
      name == IF document.form = "str" THEN document.name
              ELSE document.fields[primary_key].s
      document_row == get_document(S, collection, name)
      known == {k \in DOMAIN document.fields : get_field(S, collection, k).found}
  IN IF ~IsStr(collection) THEN Raise(S, "ValueError")
     ELSE IF collection_row.err # "" THEN Raise(S, collection_row.err)
     ELSE IF ~collection_row.found THEN Raise(S, "ValueError")
     ELSE IF document.form = "dict" /\ primary_key \notin DOMAIN document.fields
     THEN Raise(S, "KeyError")
     ELSE IF document_row.err # "" THEN Raise(S, document_row.err)
     ELSE IF document_row.found THEN Raise(S, "ValueError")
     ELSE add_document_row(S, collection,
            [document EXCEPT !.fields = [k \in known |-> document.fields[k]]])

\* add_document(collection, document, checks=True)
add_document(S, collection, document) ==
  LET collection_row == get_collection(S, collection)
      primary_key == collection_row.primary_key
      name == IF document.form = "str" THEN document.name
              ELSE document.fields[primary_key].s
      document_row == get_document(S, collection, name)
  IN IF ~IsStr(collection) THEN Raise(S, "ValueError")
     ELSE IF collection_row.err # "" THEN Raise(S, collection_row.err)
     ELSE IF ~collection_row.found THEN Raise(S, "ValueError")
     ELSE IF document.form = "dict" /\ primary_key \notin DOMAIN document.fields
     THEN Raise(S, "KeyError")
     ELSE IF document_row.err # "" THEN Raise(S, document_row.err)
     ELSE IF document_row.found THEN Raise(S, "ValueError")
     ELSE add_document_row(S, collection, document)

\* remove_document that makes its checks and deletes no row
remove_document_keeps_row(S, collection, document) ==
  LET collection_row == get_collection(S, collection)
      document_row == get_document(S, collection, document)
  IN IF collection_row.err # "" THEN Raise(S, collection_row.err)
     ELSE IF ~collection_row.found THEN Raise(S, "ValueError")
     ELSE IF document_row.err # "" THEN Raise(S, document_row.err)
     ELSE IF ~document_row.found THEN Raise(S, "ValueError")
     ELSE Ok([S EXCEPT !.unsaved_modifications = TRUE])

\* remove_document(collection, document)
remove_document(S, collection, document) ==
  LET collection_row == get_collection(S, collection)
      document_row == get_document(S, collection, document)
      primary_key == collection_row.primary_key
      \* query.delete(): the rows are deleted, and the mapped rows of the
      \* session whose primary key attribute is document are expunged
      S1 == [S EXCEPT !.db.tab[collection].rows =
                         [x \in DOMAIN @ \ {document_row.r} |-> @[x]],
                      !.dirty = {w \in @ :
                         ~(/\ w.t = collection
                           /\ w.r \in DOMAIN S.db.tab[collection].rows
                           /\ ScalarEq(Attr(S, collection, w.r, primary_key),
                                       PyStr(document)))}]
      f == flush(S1)
  IN IF collection_row.err # "" THEN Raise(S, collection_row.err)
     ELSE IF ~collection_row.found THEN Raise(S, "ValueError")
     ELSE IF document_row.err # "" THEN Raise(S, document_row.err)
     ELSE IF ~document_row.found THEN Raise(S, "ValueError")
     ELSE IF ~f.ok THEN Raise(f.st, f.exc)
     ELSE Ok([f.st EXCEPT !.unsaved_modifications = TRUE])

-----------------------------------------------------------------------------
(* VALUES *)

\* get_value(collection, document, field)
get_value(S, collection, document, field) ==
  LET collection_row == get_collection(S, collection)
      field_row == get_field(S, collection, field)
      document_row == get_document(S, collection, document)
  IN IF collection_row.err # "" THEN Raised(collection_row.err)
     ELSE IF ~collection_row.found THEN NoneV
     ELSE IF ~field_row.found THEN NoneV
     ELSE IF document_row.err # "" THEN Raised(document_row.err)
     ELSE IF ~document_row.found THEN NoneV
     ELSE FieldRow_getattr(S, collection, document_row, field)

\* set_value(collection, document, field, new_value, flush=False)
set_value(S, collection, document, field, new_value, flush_arg) ==
  LET collection_row == get_collection(S, collection)
      field_row == get_field(S, collection, field)
      document_row == get_document(S, collection, document)
      column_value == python_to_column(field_row.type, new_value)
      S1 == SetAttr(S, collection, document_row.r,
                    field_name_to_column_name(S, collection, field),
                    ColumnBind(field_row.type, column_value))
      f == flush(S1)
  IN IF collection_row.err # "" THEN Raise(S, collection_row.err)
     ELSE IF ~collection_row.found THEN Raise(S, "ValueError")
     ELSE IF ~field_row.found THEN Raise(S, "ValueError")
     ELSE IF document_row.err # "" THEN Raise(S, document_row.err)
     ELSE IF ~document_row.found THEN Raise(S, "ValueError")
     ELSE IF ~check_type_value(new_value, field_row.type) THEN Raise(S, "ValueError")
     ELSE IF IsRaised(column_value) THEN Raise(S, "AttributeError")
     ELSE IF flush_arg /\ ~f.ok THEN Raise(f.st, f.exc)
     ELSE Ok([(IF flush_arg THEN f.st ELSE S1) EXCEPT !.unsaved_modifications = TRUE])

\* remove_value(collection, document, field, flush=True)
remove_value(S, collection, document, field, flush_arg) ==
  LET collection_row == get_collection(S, collection)
      field_row == get_field(S, collection, field)
      document_row == get_document(S, collection, document)
      sql_column_name == field_name_to_column_name(S, collection, field)
      S1 == SetAttr(S, collection, document_row.r, sql_column_name, NoneV)
      f == flush(S1)
  IN IF collection_row.err # "" THEN Raise(S, collection_row.err)
     ELSE IF ~collection_row.found THEN Raise(S, "ValueError")
     ELSE IF ~field_row.found THEN Raise(S, "ValueError")
     ELSE IF document_row.err # "" THEN Raise(S, document_row.err)
     ELSE IF ~document_row.found THEN Raise(S, "ValueError")
     ELSE IF flush_arg /\ ~f.ok THEN Raise(f.st, f.exc)
     ELSE Ok([(IF flush_arg THEN f.st ELSE S1) EXCEPT !.unsaved_modifications = TRUE])

\* new_value(collection, document, field, value, checks=True), caches off
new_value(S, collection, document, field, value) ==
  LET collection_row == get_collection(S, collection)
      field_row == get_field(S, collection, field)
      document_row == get_document(S, collection, document)
      field_name == field_name_to_column_name(S, collection, field)
      \* getattr(document_row, field_name): the attribute of the row
      database_value == document_row.cells[field_name]
      current_value == python_to_column(field_row.type, value)
      S1 == IF value.k = "None" THEN S
            ELSE SetAttr(S, collection, document_row.r, field_name,
                         ColumnBind(field_row.type, current_value))
      f == flush(S1)
  IN IF collection_row.err # "" THEN Raise(S, collection_row.err)
     ELSE IF field_row.err # "" THEN Raise(S, field_row.err)
     ELSE IF document_row.err # "" THEN Raise(S, document_row.err)
     ELSE IF ~collection_row.found THEN Raise(S, "ValueError")
     ELSE IF ~field_row.found THEN Raise(S, "ValueError")
     ELSE IF ~document_row.found THEN Raise(S, "ValueError")
     ELSE IF ~check_type_value(value, field_row.type) THEN Raise(S, "ValueError")
     ELSE IF field_name \notin DOMAIN document_row.cells
     THEN Raise(S, "AttributeError")
     \* We add the value only if it does not already exist
     ELSE IF database_value.k # "None" THEN Raise(S, "ValueError")
     ELSE IF IsRaised(current_value) THEN Raise(S, "AttributeError")
     ELSE IF ~f.ok THEN Raise(f.st, f.exc)
     ELSE Ok([f.st EXCEPT !.unsaved_modifications = TRUE])

-----------------------------------------------------------------------------
(* The lookups and the values with caches=True.  A lookup returns what it
   looked up and the state with the cache entry it has set. *)

\* get_collection(name), caches on: None is cached too
get_collection_caches(S, name) ==
  LET collection_row == get_collection(S, name)
  IN IF S.collections[name].set THEN [row |-> S.collections[name].row, st |-> S]
     ELSE IF collection_row.err # "" THEN [row |-> collection_row, st |-> S]
     ELSE [row |-> collection_row,
           st |-> [S EXCEPT !.collections[name] =
                              [set |-> TRUE, row |-> collection_row]]]

\* get_field(collection, name), caches on: cached when the collection exists
get_field_caches(S, collection, name) ==
  LET field_row == get_field(S, collection, name)
      c == get_collection_caches(S, collection)
  IN IF S.fields[<<collection, name>>].set
     THEN [row |-> S.fields[<<collection, name>>].row, st |-> S]
     ELSE IF field_row.err # "" THEN [row |-> field_row, st |-> S]
     ELSE IF c.row.err # ""
     THEN [row |-> [NoFieldRow EXCEPT !.err = c.row.err], st |-> c.st]
     ELSE IF ~c.row.found THEN [row |-> NoFieldRow, st |-> c.st]
     ELSE [row |-> field_row,
           st |-> [c.st EXCEPT !.fields[<<collection, name>>] =
                                 [set |-> TRUE, row |-> field_row]]]

\* field_name_to_column_name(collection, field), caches on
field_name_to_column_name_caches(S, collection, field) ==
  LET c == get_collection_caches(S, collection)
      new_name == IF field = c.row.primary_key THEN field ELSE md5(field)
  IN IF ~c.row.found THEN [name |-> "None", st |-> c.st]
     ELSE IF c.st.names[<<collection, field>>].set
     THEN [name |-> c.st.names[<<collection, field>>].name, st |-> c.st]
     ELSE [name |-> new_name,
           st |-> [c.st EXCEPT !.names[<<collection, field>>] =
                                 [set |-> TRUE, name |-> new_name]]]

\* get_document(collection, document), caches on: the FieldRow made at the
\* first lookup, or None, is returned by every later one
get_document_caches(S, collection, document) ==
  LET entry == S.documents[<<collection, document>>]
      c == get_collection_caches(S, collection)
      document_row == get_document(c.st, collection, document)
  IN IF entry.set
     THEN [row |-> [err |-> "", found |-> entry.found, r |-> entry.r], st |-> S]
     ELSE IF c.row.err # ""
     THEN [row |-> [err |-> c.row.err, found |-> FALSE, r |-> "None"], st |-> c.st]
     ELSE IF ~c.row.found
     THEN [row |-> [err |-> "", found |-> FALSE, r |-> "None"], st |-> c.st]
     ELSE IF document_row.err # ""
     THEN [row |-> [err |-> document_row.err, found |-> FALSE, r |-> "None"],
           st |-> c.st]
     ELSE [row |-> [err |-> "", found |-> document_row.found, r |-> document_row.r],
           st |-> [c.st EXCEPT !.documents[<<collection, document>>] =
                     [set |-> TRUE, found |-> document_row.found,
                      r |-> document_row.r, attributes |-> NoAttributes,
                      cols |-> IF document_row.found
                               THEN c.st.table_classes[collection].cols ELSE {}]]]

\* The attributes of the mapped row r, as the session holds them now.
RowCells(S, collection, r) ==
  [col \in S.table_classes[collection].cols |-> Attr(S, collection, r, col)]

\* getattr(document_row, name) on the cached FieldRow of a document: an
\* attribute set on the FieldRow, else FieldRow.__getattr__(name), which
\* sets the decoded value on the FieldRow under the hashed name.
FieldRow_getattr_caches(S, collection, document, name) ==
  LET entry == S.documents[<<collection, document>>]
      cells == RowCells(S, collection, entry.r)
      f == get_field_caches(S, collection, name)
      hashed_name == md5(name)
      result == column_to_python(f.row.type, cells[hashed_name])
  IN IF name \in ColNames /\ entry.attributes[name].set
     THEN [val |-> entry.attributes[name].v, st |-> S]
     ELSE IF name \in DOMAIN cells THEN [val |-> cells[name], st |-> S]
     ELSE IF hashed_name \notin DOMAIN cells
     THEN [val |-> Raised("AttributeError"), st |-> S]
     ELSE IF f.row.err # "" THEN [val |-> Raised(f.row.err), st |-> f.st]
     ELSE IF ~f.row.found THEN [val |-> Raised("AttributeError"), st |-> f.st]
     ELSE IF IsRaised(result) THEN [val |-> result, st |-> f.st]
     ELSE [val |-> result,
           st |-> [f.st EXCEPT
                     !.documents[<<collection, document>>].attributes[hashed_name] =
                        [set |-> TRUE, v |-> result]]]

\* The lookups that the handlers of the values make first, one after the
\* other, each in the state that the one before has left: the collection c,
\* the field f, the document d and the column name n.
looked_up(S, collection, document, field) ==
  CHOOSE l \in
    UNION {UNION {UNION {
      {[c |-> c, f |-> f, d |-> d, n |-> n] :
         n \in {field_name_to_column_name_caches(d.st, collection, field)}} :
         d \in {get_document_caches(f.st, collection, document)}} :
         f \in {get_field_caches(c.st, collection, field)}} :
         c \in {get_collection_caches(S, collection)}} : TRUE

\* get_value(collection, document, field), caches on
get_value_caches(S, collection, document, field) ==
  LET returns(l) ==
        IF l.c.row.err # "" THEN [val |-> Raised(l.c.row.err), st |-> l.c.st]
        ELSE IF ~l.c.row.found THEN [val |-> NoneV, st |-> l.c.st]
        ELSE IF l.f.row.err # "" THEN [val |-> Raised(l.f.row.err), st |-> l.f.st]
        ELSE IF ~l.f.row.found THEN [val |-> NoneV, st |-> l.f.st]
        ELSE IF l.d.row.err # "" THEN [val |-> Raised(l.d.row.err), st |-> l.d.st]
        ELSE IF ~l.d.row.found THEN [val |-> NoneV, st |-> l.d.st]
        ELSE FieldRow_getattr_caches(l.d.st, collection, document, field)
  IN CHOOSE r \in {returns(l) : l \in {looked_up(S, collection, document, field)}} : TRUE

\* What set_value does with the row it has found
set_value_write(S, collection, r, field_type, field_name, value, flush_arg) ==
  LET column_value == python_to_column(field_type, value)
      S1 == SetAttr(S, collection, r, field_name, ColumnBind(field_type, column_value))
      fl == flush(S1)
  IN IF IsRaised(column_value) THEN Raise(S, "AttributeError")
     ELSE IF flush_arg /\ ~fl.ok THEN Raise(fl.st, fl.exc)
     ELSE Ok([(IF flush_arg THEN fl.st ELSE S1) EXCEPT !.unsaved_modifications = TRUE])

\* set_value(collection, document, field, new_value, flush=False), caches on
set_value_caches(S, collection, document, field, value, flush_arg) ==
  LET returns(l) ==
        IF l.c.row.err # "" THEN Raise(l.c.st, l.c.row.err)
        ELSE IF ~l.c.row.found THEN Raise(l.c.st, "ValueError")
        ELSE IF l.f.row.err # "" THEN Raise(l.f.st, l.f.row.err)
        ELSE IF ~l.f.row.found THEN Raise(l.f.st, "ValueError")
        ELSE IF l.d.row.err # "" THEN Raise(l.d.st, l.d.row.err)
        ELSE IF ~l.d.row.found THEN Raise(l.d.st, "ValueError")
        ELSE IF ~check_type_value(value, l.f.row.type) THEN Raise(l.d.st, "ValueError")
        ELSE set_value_write(l.n.st, collection, l.d.row.r, l.f.row.type, l.n.name,
                             value, flush_arg)
  IN CHOOSE r \in {returns(l) : l \in {looked_up(S, collection, document, field)}} : TRUE

\* remove_value(collection, document, field, flush=True), caches on
remove_value_caches(S, collection, document, field, flush_arg) ==
  LET returns(l) ==
        LET S1 == SetAttr(l.n.st, collection, l.d.row.r, l.n.name, NoneV)
            fl == flush(S1)
        IN IF l.c.row.err # "" THEN Raise(l.c.st, l.c.row.err)
           ELSE IF ~l.c.row.found THEN Raise(l.c.st, "ValueError")
           ELSE IF l.f.row.err # "" THEN Raise(l.f.st, l.f.row.err)
           ELSE IF ~l.f.row.found THEN Raise(l.f.st, "ValueError")
           ELSE IF l.d.row.err # "" THEN Raise(l.d.st, l.d.row.err)
           ELSE IF ~l.d.row.found THEN Raise(l.d.st, "ValueError")
           ELSE IF flush_arg /\ ~fl.ok THEN Raise(fl.st, fl.exc)
           ELSE Ok([(IF flush_arg THEN fl.st ELSE S1) EXCEPT !.unsaved_modifications = TRUE])
  IN CHOOSE r \in {returns(l) : l \in {looked_up(S, collection, document, field)}} : TRUE

\* What new_value does with the row it has found: getattr(document_row,
\* field_name) is given the hashed name, under which FieldRow.__getattr__
\* has set the value that an earlier read decoded.
new_value_add(S, collection, document, r, field_type, field_name, value) ==
  LET entry == S.documents[<<collection, document>>]
      cells == RowCells(S, collection, r)
      database_value ==
        IF entry.attributes[field_name].set THEN entry.attributes[field_name].v
        ELSE cells[field_name]
      current_value == python_to_column(field_type, value)
      S1 == IF value.k = "None" THEN S
            ELSE SetAttr(S, collection, r, field_name,
                         ColumnBind(field_type, current_value))
      fl == flush(S1)
  IN IF ~entry.attributes[field_name].set /\ field_name \notin DOMAIN cells
     THEN Raise(S, "AttributeError")
     \* We add the value only if it does not already exist
     ELSE IF database_value.k # "None" THEN Raise(S, "ValueError")
     ELSE IF IsRaised(current_value) THEN Raise(S, "AttributeError")
     ELSE IF ~fl.ok THEN Raise(fl.st, fl.exc)
     ELSE Ok([fl.st EXCEPT !.unsaved_modifications = TRUE])

\* new_value(collection, document, field, value, checks=True), caches on
new_value_caches(S, collection, document, field, value) ==
  LET returns(l) ==
        IF l.c.row.err # "" THEN Raise(l.c.st, l.c.row.err)
        ELSE IF l.f.row.err # "" THEN Raise(l.f.st, l.f.row.err)
        ELSE IF l.d.row.err # "" THEN Raise(l.d.st, l.d.row.err)
        ELSE IF ~l.c.row.found THEN Raise(l.d.st, "ValueError")
        ELSE IF ~l.f.row.found THEN Raise(l.d.st, "ValueError")
        ELSE IF ~l.d.row.found THEN Raise(l.d.st, "ValueError")
        ELSE IF ~check_type_value(value, l.f.row.type) THEN Raise(l.d.st, "ValueError")
        ELSE new_value_add(l.n.st, collection, document, l.d.row.r, l.f.row.type,
                           l.n.name, value)
  IN CHOOSE r \in {returns(l) : l \in {looked_up(S, collection, document, field)}} : TRUE

-----------------------------------------------------------------------------
(* The schema and the documents with caches=True *)

\* The caches without the entries of the collection.
WithoutCollection(cache, empty, collection) ==
  [k \in DOMAIN cache |-> IF k[1] = collection THEN empty[k] ELSE cache[k]]

\* A statement after the cache updates of a handler raised: the flush,
\* which leaves the session inactive, or update_table_classes.
RaisedAfterCaches(S, r) ==
  (r.st.inactive /\ ~S.inactive) \/ r.res = "AttributeError"

\* add_collection(name, primary_key), caches on
add_collection_caches(S, name, primary_key) ==
  LET creates(c) ==
        LET r == add_collection_create(c.st, name, primary_key)
            cached ==
              [r.st EXCEPT
                 !.documents = WithoutCollection(@, NoDocuments, name),
                 !.fields = WithoutCollection(@, NoFields, name),
                 !.names = WithoutCollection(@, NoNames, name),
                 !.collections[name] =
                    [set |-> TRUE,
                     row |-> [err |-> "", found |-> TRUE,
                              primary_key |-> primary_key]]]
        IN IF c.row.err # "" THEN Raise(c.st, c.row.err)
           ELSE IF c.row.found \/ c.st.table_classes[name].exists
           THEN Raise(c.st, "ValueError")
           ELSE IF r.res = "ok" \/ (r.st.inactive /\ ~S.inactive)
           THEN [st |-> cached, res |-> r.res]
           ELSE r
  IN CHOOSE x \in {creates(c) : c \in {get_collection_caches(S, name)}} : TRUE

\* The lookups add_field and remove_field make first, one after the other:
\* the collection c and the field f.
looked_up_field(S, collection, name) ==
  CHOOSE l \in
    UNION {{[c |-> c, f |-> f] :
              f \in {get_field_caches(c.st, collection, name)}} :
              c \in {get_collection_caches(S, collection)}} : TRUE

\* add_field, caches on, from "Adding the field in the field table" on:
\* the field row is cached, the column is added and the documents of every
\* collection are dropped from the cache.
add_field_column_caches(S, collection, name, field_type, description) ==
  LET S1 == [S EXCEPT !.fields[<<collection, name>>] =
               [set |-> TRUE,
                row |-> [err |-> "", found |-> TRUE, type |-> field_type,
                         description |-> description]]]
      adds(r) ==
        IF r.res = "ok" \/ RaisedAfterCaches(S, r)
        THEN [st |-> [r.st EXCEPT !.documents = NoDocuments], res |-> r.res]
        ELSE r
  IN CHOOSE x \in UNION {
       {adds(r) : r \in {add_field_column(n.st, collection, name, field_type,
                                          description)}} :
       n \in {field_name_to_column_name_caches(S1, collection, name)}} : TRUE

\* add_field that leaves the cached documents as they are
add_field_keeps_documents(S, collection, name, field_type, description) ==
  LET returns(l) ==
        IF ~IsStr(name) \/ ~IsStr(collection) THEN Raise(S, "ValueError")
        ELSE IF l.c.row.err # "" THEN Raise(l.c.st, l.c.row.err)
        ELSE IF ~l.c.row.found THEN Raise(l.c.st, "ValueError")
        ELSE IF l.f.row.err # "" THEN Raise(l.f.st, l.f.row.err)
        ELSE IF l.f.row.found THEN Raise(l.f.st, "ValueError")
        ELSE IF field_type \notin ALL_TYPES THEN Raise(l.f.st, "ValueError")
        ELSE LET r == add_field_column(l.f.st, collection, name, field_type,
                                       description)
             IN [st |-> [r.st EXCEPT !.fields[<<collection, name>>] =
                           [set |-> TRUE,
                            row |-> [err |-> "", found |-> TRUE,
                                     type |-> field_type,
                                     description |-> description]]],
                 res |-> r.res]
  IN CHOOSE r \in {returns(l) : l \in {looked_up_field(S, collection, name)}} : TRUE

\* add_field(collection, name, field_type, description), caches on
add_field_caches(S, collection, name, field_type, description) ==
  LET returns(l) ==
        IF ~IsStr(name) \/ ~IsStr(collection) THEN Raise(S, "ValueError")
        ELSE IF l.c.row.err # "" THEN Raise(l.c.st, l.c.row.err)
        ELSE IF ~l.c.row.found THEN Raise(l.c.st, "ValueError")
        ELSE IF l.f.row.err # "" THEN Raise(l.f.st, l.f.row.err)
        ELSE IF l.f.row.found THEN Raise(l.f.st, "ValueError")
        ELSE IF field_type \notin ALL_TYPES THEN Raise(l.f.st, "ValueError")
        ELSE add_field_column_caches(l.f.st, collection, name, field_type,
                                     description)
  IN CHOOSE r \in {returns(l) : l \in {looked_up_field(S, collection, name)}} : TRUE

\* remove_field, caches on, from the column name of the field on: the
\* table is rebuilt, the documents of every collection and the field row
\* are dropped from the cache.
remove_field_rebuild_caches(S, collection, field) ==
  LET removes(r) ==
        IF r.res = "ok" \/ RaisedAfterCaches(S, r)
        THEN [st |-> [r.st EXCEPT
                        !.documents = NoDocuments,
                        !.fields[<<collection, field>>] =
                           NoFields[<<collection, field>>]],
              res |-> r.res]
        ELSE r
  IN CHOOSE x \in UNION {
       {removes(r) : r \in {remove_field_rebuild(n.st, collection, field)}} :
       n \in {field_name_to_column_name_caches(S, collection, field)}} : TRUE

\* remove_field(collection, field), caches on
remove_field_caches(S, collection, field) ==
  LET returns(l) ==
        IF ~IsStr(field) \/ ~IsStr(collection) THEN Raise(S, "ValueError")
        ELSE IF l.c.row.err # "" THEN Raise(l.c.st, l.c.row.err)
        ELSE IF ~l.c.row.found THEN Raise(l.c.st, "ValueError")
        ELSE IF l.f.row.err # "" THEN Raise(l.f.st, l.f.row.err)
        ELSE IF ~l.f.row.found THEN Raise(l.f.st, "ValueError")
        ELSE remove_field_rebuild_caches(l.f.st, collection, field)
  IN CHOOSE r \in {returns(l) : l \in {looked_up_field(S, collection, field)}} : TRUE

\* The lookups add_document and remove_document make first: the collection
\* c and the document d.
looked_up_document(S, collection, document) ==
  CHOOSE l \in
    UNION {{[c |-> c, d |-> d] :
              d \in {get_document_caches(c.st, collection, document)}} :
              c \in {get_collection_caches(S, collection)}} : TRUE

\* add_document(collection, document, checks=True) of a document name,
\* caches on: the FieldRow of the new row is cached before the flush.
add_document_caches(S, collection, document) ==
  LET returns(l) ==
        LET r == add_document_row(l.d.st, collection, StrDoc(document))
        IN IF ~IsStr(collection) THEN Raise(S, "ValueError")
           ELSE IF l.c.row.err # "" THEN Raise(l.c.st, l.c.row.err)
           ELSE IF ~l.c.row.found THEN Raise(l.c.st, "ValueError")
           ELSE IF l.d.row.err # "" THEN Raise(l.d.st, l.d.row.err)
           ELSE IF l.d.row.found THEN Raise(l.d.st, "ValueError")
           ELSE IF r.res = "ok" \/ (r.st.inactive /\ ~S.inactive)
           THEN [st |-> [r.st EXCEPT !.documents[<<collection, document>>] =
                           [set |-> TRUE, found |-> TRUE,
                            r |-> get_document(r.st, collection, document).r,
                            attributes |-> NoAttributes,
                            cols |-> r.st.table_classes[collection].cols]],
                 res |-> r.res]
           ELSE r
  IN CHOOSE r \in {returns(l) :
       l \in {looked_up_document(S, collection, document)}} : TRUE

-----------------------------------------------------------------------------
(* What the lookups return *)

\* Every lookup on one collection.
Lookups(S, c) ==
  [collection |-> get_collection(S, c),
   fields |-> [f \in FieldNames |-> get_field(S, c, f)],
   fields_names |-> get_fields_names(S, c),
   documents |-> [d \in DocKeys |->
                    [get_document(S, c, d) EXCEPT !.r = "None"]],
   documents_names |-> get_documents_names(S, c),
   values |-> [df \in DocKeys \X FieldNames |-> get_value(S, c, df[1], df[2])]]

\* The fields of a collection with their types and descriptions, and the
\* values stored for them.
FieldsAndValues(S, c) ==
  [fields |-> [f \in FieldNames |-> get_field(S, c, f)],
   documents_names |-> get_documents_names(S, c),
   values |-> [df \in DocKeys \X FieldNames |-> get_value(S, c, df[1], df[2])]]

-----------------------------------------------------------------------------
(* Specification *)

\* The field types and descriptions given to add_field.
FieldTypes == {FIELD_TYPE_STRING, "list_int"}
Descriptions == {"None", "text"}

\* The values and the documents given to add_document and set_value.
Values == {NoneV, PyStr("a"), PyList(<<PyInt("1")>>)}
Documents ==
  {StrDoc(d) : d \in DocNames}
    \cup {DictDoc(k :> PyStr(d)) : k \in PkNames, d \in DocNames}
    \cup {DictDoc((k :> PyStr(d)) @@ ("f1" :> v)) :
            k \in PkNames, d \in DocNames, v \in Values}
    \cup {DictDoc("f1" :> v) : v \in Values}

NoArg == "-"
Call(op, c, d, f, t, desc, v, res) ==
  [op |-> op, c |-> c, d |-> d, f |-> f, t |-> t, desc |-> desc, v |-> v,
   res |-> res]

\* The generator that filter_documents returns runs the body of the
\* function when it is iterated: it is new, then exhausted.  yielded are
\* the documents each iteration of it gave, at the number of calls made
\* before each.
NoStream == [state |-> "none", c |-> NoArg, f |-> NoArg, yielded |-> <<>>, at |-> <<>>]
StreamAfter(call) ==
  IF call.op = "filter_documents"
  THEN [state |-> "new", c |-> call.c, f |-> call.v, yielded |-> <<>>, at |-> <<>>]
  ELSE IF call.op = "iterate"
  THEN [stream EXCEPT !.state = "exhausted", !.yielded = Append(@, call.v),
                      !.at = Append(@, nops)]
  ELSE stream

\* A call that raised and changed nothing: the calls that may follow it are
\* those that may follow the state it was made in, and are explored from there.
Rejected == last.res # "ok" /\ St = pre

\* One more call may be made.
CanCall == nops < MaxOps /\ ~Rejected

\* The handler's outcome r becomes the next state.
Becomes(r, call) ==
  /\ nops' = nops + 1
  /\ db' = r.st.db
  /\ committed' = r.st.committed
  /\ dirty' = r.st.dirty
  /\ pending' = r.st.pending
  /\ inactive' = r.st.inactive
  /\ savepoints' = r.st.savepoints
  /\ meta' = r.st.meta
  /\ mtab' = r.st.mtab
  /\ table_classes' = r.st.table_classes
  /\ unsaved_modifications' = r.st.unsaved_modifications
  /\ caches' = r.st.caches
  /\ collections' = r.st.collections
  /\ fields' = r.st.fields
  /\ names' = r.st.names
  /\ documents' = r.st.documents
  /\ stream' = StreamAfter(call)
  /\ last' = [call EXCEPT !.res = r.res]
  /\ pre' = St
  /\ saved' = IF call.op = "save_modifications" /\ r.res = "ok"
              THEN [c \in CollNames |-> Lookups(r.st, c)]
              ELSE saved
  /\ begun' = IF call.op = "start_transaction" /\ r.res = "ok"
              THEN Append(begun, [c \in CollNames |-> Lookups(r.st, c)])
              ELSE IF call.op \in {"save_modifications", "unsave_modifications"}
                      /\ r.res = "ok"
              THEN SubSeq(begun, 1, Len(begun) - 1)
              ELSE begun
  /\ undone' = IF call.op = "unsave_modifications" /\ begun # <<>>
               THEN <<begun[Len(begun)]>>
               ELSE <<>>
  /\ only_removed' = /\ only_removed
                     /\ \/ last.op = "open"
                        \/ last.op = "remove_field" /\ last.res = "ok"

\* Database.__init__ on the backend D: the tables are reflected into
\* self.metadata in the order of their names, the classes are generated and
\* a session is opened.  create_database has made the two catalog tables.
SortedTables == <<"c1", "c1_backup", "c2", "c2_backup", COLLECTION_TABLE, FIELD_TABLE>>

Database_init(D) ==
  update_table_classes(
    [db |-> D, committed |-> D, dirty |-> {}, pending |-> {}, inactive |-> FALSE,
     savepoints |-> <<>>,
     meta |-> SelectSeq(SortedTables,
                LAMBDA t : t \in CatalogTables \/ D.tab[t].exists),
     mtab |-> [t \in TableNames |->
                 [exists |-> D.tab[t].exists, cols |-> D.tab[t].cols,
                  pk |-> D.tab[t].pk]],
     table_classes |-> [t \in AllTables |-> NoClass],
     unsaved_modifications |-> FALSE,
     caches |-> FALSE, collections |-> NoCollections, fields |-> NoFields,
     names |-> NoNames, documents |-> NoDocuments]).st

\* A database file left by an earlier run of the program: one collection
\* with two fields and one document, saved.
Populated ==
  LET s1 == add_collection(Database_init(EmptyDb), "c1", "name").st
      s2 == add_field(s1, "c1", "id", FIELD_TYPE_STRING, "text").st
      s3 == add_field(s2, "c1", "f1", "list_int", "None").st
      s4 == add_document(s3, "c1",
              DictDoc(("name" :> PyStr("d1")) @@ ("f1" :> PyList(<<PyInt("1")>>)))).st
      s5 == set_value(s4, "c1", "d1", "id", PyStr("a"), FALSE).st
  IN save_modifications(s5).st.committed

\* The program opens a new database file or the one an earlier run left.
Init ==
  /\ \E D \in {EmptyDb, Populated} :
       /\ db = Database_init(D).db
       /\ committed = Database_init(D).committed
       /\ meta = Database_init(D).meta
       /\ mtab = Database_init(D).mtab
       /\ table_classes = Database_init(D).table_classes
  /\ dirty = {}
  /\ pending = {}
  /\ inactive = FALSE
  /\ savepoints = <<>>
  /\ unsaved_modifications = FALSE
  /\ caches = FALSE
  /\ collections = NoCollections
  /\ fields = NoFields
  /\ names = NoNames
  /\ documents = NoDocuments
  /\ stream = NoStream
  /\ last = Call("open", NoArg, NoArg, NoArg, NoArg, NoArg, NoneV, "ok")
  /\ pre = St
  /\ saved = [c \in CollNames |-> Lookups(St, c)]
  /\ begun = <<>>
  /\ undone = <<>>
  /\ only_removed = TRUE
  /\ nops = 0

AddCollection ==
  /\ CanCall
  /\ \E name \in CollNames \cup {FIELD_TABLE}, primary_key \in PkNames :
       Becomes(add_collection(St, name, primary_key),
               Call("add_collection", name, NoArg, primary_key, NoArg, NoArg, NoneV, ""))

SaveModifications ==
  /\ CanCall
  /\ Becomes(save_modifications(St),
             Call("save_modifications", NoArg, NoArg, NoArg, NoArg, NoArg, NoneV, ""))

UnsaveModifications ==
  /\ CanCall
  /\ Becomes(unsave_modifications(St),
             Call("unsave_modifications", NoArg, NoArg, NoArg, NoArg, NoArg, NoneV, ""))

AddField ==
  /\ CanCall
  /\ \E collection \in CollNames \cup {NotAString}, name \in SpecFields,
        field_type \in FieldTypes \cup {"bogus"}, description \in Descriptions :
       Becomes(add_field(St, collection, name, field_type, description),
               Call("add_field", collection, NoArg, name, field_type, description,
                    NoneV, ""))

RemoveField ==
  /\ CanCall
  /\ \E collection \in CollNames \cup {NotAString},
        field \in SpecFields \cup {NotAString} :
       Becomes(remove_field(St, collection, field),
               Call("remove_field", collection, NoArg, field, NoArg, NoArg, NoneV, ""))

AddDocument ==
  /\ CanCall
  /\ \E collection \in CollNames, document \in Documents :
       Becomes(add_document(St, collection, document),
               Call("add_document", collection,
                    IF document.form = "str" THEN document.name ELSE NoArg,
                    NoArg, NoArg, NoArg, document, ""))

RemoveDocument ==
  /\ CanCall
  /\ \E collection \in CollNames, document \in DocNames :
       Becomes(remove_document(St, collection, document),
               Call("remove_document", collection, document, NoArg, NoArg, NoArg, NoneV, ""))

SetValue ==
  /\ CanCall
  /\ \E collection \in CollNames, document \in DocNames, field \in SpecFields,
        value \in Values, flush_arg \in BOOLEAN :
       Becomes(set_value(St, collection, document, field, value, flush_arg),
               Call("set_value", collection, document, field, NoArg, NoArg,
                    value, ""))

RemoveValue ==
  /\ CanCall
  /\ \E collection \in CollNames, document \in DocNames, field \in SpecFields,
        flush_arg \in BOOLEAN :
       Becomes(remove_value(St, collection, document, field, flush_arg),
               Call("remove_value", collection, document, field, NoArg, NoArg, NoneV, ""))

Next ==
  \/ AddCollection
  \/ AddField
  \/ RemoveField
  \/ AddDocument
  \/ RemoveDocument
  \/ SetValue
  \/ RemoveValue
  \/ SaveModifications
  \/ UnsaveModifications

Spec == Init /\ [][Next]_vars

-----------------------------------------------------------------------------
(* Specification of the field types: one collection, a field of each type *)
(* and a document with a value of that type.                               *)

\* Longest list given as a value.
MaxLen == 2

TypedScalars ==
  {NoneV, PyStr("a"), PyStr("b"), PyInt("1"), PyInt("2"), PyFloat("1.5"),
   PyFloat("inf"), PyBool("True"), Scalar("date", "2018-01-01"),
   Scalar("datetime", "2018-01-01T12:00"), Scalar("time", "12:00"),
   Scalar("time", "12:00+01:00")}
TypedValues ==
  TypedScalars
    \cup {PyList(items) : items \in UNION {[1..n -> TypedScalars] : n \in 0..MaxLen}}

\* A database file left by an earlier run: the collection c1, saved.
OneCollection ==
  save_modifications(add_collection(Database_init(EmptyDb), "c1", "name").st).st.committed

InitTypes ==
  /\ db = Database_init(OneCollection).db
  /\ committed = Database_init(OneCollection).committed
  /\ meta = Database_init(OneCollection).meta
  /\ mtab = Database_init(OneCollection).mtab
  /\ table_classes = Database_init(OneCollection).table_classes
  /\ dirty = {}
  /\ pending = {}
  /\ inactive = FALSE
  /\ savepoints = <<>>
  /\ unsaved_modifications = FALSE
  /\ caches = FALSE
  /\ collections = NoCollections
  /\ fields = NoFields
  /\ names = NoNames
  /\ documents = NoDocuments
  /\ stream = NoStream
  /\ last = Call("open", NoArg, NoArg, NoArg, NoArg, NoArg, NoneV, "ok")
  /\ pre = St
  /\ saved = [c \in CollNames |-> Lookups(St, c)]
  /\ begun = <<>>
  /\ undone = <<>>
  /\ only_removed = TRUE
  /\ nops = 0

AddFieldTyped ==
  /\ CanCall
  /\ \E field_type \in ALL_TYPES :
       Becomes(add_field(St, "c1", "f1", field_type, "None"),
               Call("add_field", "c1", NoArg, "f1", field_type, "None", NoneV, ""))

\* add_document with a value the type of the field accepts
AddDocumentTyped ==
  /\ CanCall
  /\ \E v \in TypedValues :
       LET document == DictDoc(("name" :> PyStr("d1")) @@ ("f1" :> v))
       IN /\ get_field(St, "c1", "f1").found
          /\ check_type_value(v, get_field(St, "c1", "f1").type)
          /\ Becomes(add_document(St, "c1", document),
                     Call("add_document", "c1", NoArg, NoArg, NoArg, NoArg,
                          document, ""))

NextTypes ==
  \/ AddFieldTyped
  \/ AddDocumentTyped

SpecTypes == InitTypes /\ [][NextTypes]_vars

-----------------------------------------------------------------------------
(* Reads and writes of values, with and without caches *)

\* Calls made in this specification.
MaxCalls == 3

\* The fields whose values are read and written: those that are not the
\* primary key.
ValueFields == {"id", "f1"}

\* The database file is opened with caches=True or caches=False.
InitCaches ==
  /\ db = Database_init(Populated).db
  /\ committed = Database_init(Populated).committed
  /\ meta = Database_init(Populated).meta
  /\ mtab = Database_init(Populated).mtab
  /\ table_classes = Database_init(Populated).table_classes
  /\ dirty = {}
  /\ pending = {}
  /\ inactive = FALSE
  /\ savepoints = <<>>
  /\ unsaved_modifications = FALSE
  /\ caches \in BOOLEAN
  /\ collections = NoCollections
  /\ fields = NoFields
  /\ names = NoNames
  /\ documents = NoDocuments
  /\ stream = NoStream
  /\ last = Call("open", NoArg, NoArg, NoArg, NoArg, NoArg, NoneV, "ok")
  /\ pre = St
  /\ saved = [c \in CollNames |-> Lookups(St, c)]
  /\ begun = <<>>
  /\ undone = <<>>
  /\ only_removed = TRUE
  /\ nops = 0

CanCallCaches == nops < MaxCalls /\ ~Rejected

\* What a read returns, as the outcome of a call.
Returned(val, S) ==
  [st |-> S, res |-> IF IsRaised(val) THEN val.s ELSE "ok"]

GetValueCaches ==
  /\ CanCallCaches
  /\ \E document \in DocNames, field \in ValueFields :
       LET r == IF caches THEN get_value_caches(St, "c1", document, field)
                ELSE [val |-> get_value(St, "c1", document, field), st |-> St]
       IN Becomes(Returned(r.val, r.st),
                  Call("get_value", "c1", document, field, NoArg, NoArg, r.val, ""))

GetDocumentCaches ==
  /\ CanCallCaches
  /\ \E document \in DocNames :
       LET r == IF caches THEN get_document_caches(St, "c1", document)
                ELSE [row |-> get_document(St, "c1", document), st |-> St]
       IN Becomes([st |-> r.st, res |-> IF r.row.err # "" THEN r.row.err ELSE "ok"],
                  Call("get_document", "c1", document, NoArg, NoArg, NoArg, NoneV, ""))

SetValueCaches ==
  /\ CanCallCaches
  /\ \E document \in DocNames, field \in ValueFields, value \in Values,
        flush_arg \in BOOLEAN :
       Becomes(IF caches
               THEN set_value_caches(St, "c1", document, field, value, flush_arg)
               ELSE set_value(St, "c1", document, field, value, flush_arg),
               Call("set_value", "c1", document, field, NoArg, NoArg, value, ""))

RemoveValueCaches ==
  /\ CanCallCaches
  /\ \E document \in DocNames, field \in ValueFields, flush_arg \in BOOLEAN :
       Becomes(IF caches
               THEN remove_value_caches(St, "c1", document, field, flush_arg)
               ELSE remove_value(St, "c1", document, field, flush_arg),
               Call("remove_value", "c1", document, field, NoArg, NoArg, NoneV, ""))

NewValueCaches ==
  /\ CanCallCaches
  /\ \E document \in DocNames, field \in ValueFields, value \in Values :
       Becomes(IF caches
               THEN new_value_caches(St, "c1", document, field, value)
               ELSE new_value(St, "c1", document, field, value),
               Call("new_value", "c1", document, field, NoArg, NoArg, value, ""))

NextCaches ==
  \/ GetValueCaches
  \/ GetDocumentCaches
  \/ SetValueCaches
  \/ RemoveValueCaches
  \/ NewValueCaches

SpecCaches == InitCaches /\ [][NextCaches]_vars

-----------------------------------------------------------------------------
(* Properties of remove_field *)

\* The collections of the catalog, and the fields registered for one.
IsCollection(S, c) == c \in CollNames /\ S.db.coll[c] # NoRow
IsField(S, c, f) == IsCollection(S, c) /\ f \in FieldNames /\ S.db.field[<<c, f>>].exists

\* C1: remove_field(c, f) removes only the targeted field: after it succeeds
\* get_field(c, f) is None and get_value(c, d, f) is None for every document
\* d of c; for every other field g of c and every document d, get_value(c,
\* d, g) is what it was before the call; the set of documents of c is
\* unchanged; every other collection is unchanged.
C1_RemoveFieldOnlyTargeted ==
  last.op = "remove_field" /\ last.res = "ok" =>
    /\ ~get_field(St, last.c, last.f).found
    /\ \A d \in DocKeys : get_value(St, last.c, d, last.f) = NoneV
    /\ \A g \in get_fields_names(pre, last.c).names \ {last.f}, d \in DocKeys :
         get_value(St, last.c, d, g) = get_value(pre, last.c, d, g)
    /\ get_documents_names(St, last.c) = get_documents_names(pre, last.c)
    /\ \A o \in CollNames \ {last.c} : Lookups(St, o) = Lookups(pre, o)

-----------------------------------------------------------------------------
(* Properties of the transactions *)

\* C3: after unsave_modifications every lookup returns what it returned at
\* the last save_modifications (or at opening), and a collection created in
\* the rolled-back unit can be created again under the same name.
C3_RollbackUndoesEveryWrite ==
  last.op = "unsave_modifications" =>
    /\ \A c \in CollNames : Lookups(St, c) = saved[c]
    /\ \A c \in CollNames, primary_key \in PkNames :
         IsCollection(pre, c) /\ ~IsCollection(St, c) =>
           add_collection(St, c, primary_key).res = "ok"

-----------------------------------------------------------------------------
(* Properties of the collections *)

\* C4: in every reachable state every existing collection has its primary
\* key registered as a field of type string whose column is named as the
\* field, and the table of the collection has that column.
C4_PrimaryKeyFieldRegistered ==
  \A c \in CollNames :
    IsCollection(St, c) =>
      LET primary_key == St.db.coll[c]
      IN /\ IsField(St, c, primary_key)
         /\ St.db.field[<<c, primary_key>>].type = FIELD_TYPE_STRING
         /\ field_name_to_column_name([St EXCEPT !.inactive = FALSE], c, primary_key)
              = primary_key
         /\ primary_key \in St.db.tab[c].cols

\* C5: add_collection(name, ...) raises when a collection of that name
\* exists or when name is a catalog table, and after the failed call every
\* lookup on every collection returns what it returned before.
C5_AddCollectionRejectsNameInUse ==
  /\ last.op = "add_collection"
  /\ IsCollection(pre, last.c) \/ last.c \in CatalogTables
  => /\ last.res # "ok"
     /\ \A c \in CollNames : Lookups(St, c) = Lookups(pre, c)

\* C5 happens: add_collection on the name of a collection that has a
\* document.
C5_Witness ==
  /\ last.op = "add_collection"
  /\ last.res = "ValueError"
  /\ IsCollection(pre, last.c)
  /\ get_documents_names(pre, last.c).names # {}

\* C6: after a successful add_collection(name, pk), get_collection(name) has
\* the primary key pk, get_fields_names(name) is exactly [pk], the field pk
\* has type string, the collection has no document, and every other
\* collection keeps its fields and documents.
C6_AddCollectionCreatesEmpty ==
  last.op = "add_collection" /\ last.res = "ok" =>
    /\ get_collection(St, last.c) = [err |-> "", found |-> TRUE, primary_key |-> last.f]
    /\ get_fields_names(St, last.c) = [err |-> "", names |-> {last.f}]
    /\ get_field(St, last.c, last.f).type = FIELD_TYPE_STRING
    /\ get_documents_names(St, last.c) = [err |-> "", names |-> {}]
    /\ \A o \in CollNames \ {last.c} : Lookups(St, o) = Lookups(pre, o)

-----------------------------------------------------------------------------
(* Properties of the fields *)

\* C7: add_field(c, f, t, d) raises when c is no existing collection, when
\* f is already a field of c (the primary key included) or when t is no
\* recognized type, and after the failed call the fields of every
\* collection, their types and descriptions and every value are unchanged.
C7_AddFieldRejects ==
  /\ last.op = "add_field"
  /\ \/ ~IsCollection(pre, last.c)
     \/ IsField(pre, last.c, last.f)
     \/ last.t \notin ALL_TYPES
  => /\ last.res # "ok"
     /\ \A c \in CollNames : FieldsAndValues(St, c) = FieldsAndValues(pre, c)

\* C7 happens: add_field on the primary key field of a collection that has
\* a document with a value.
C7_Witness ==
  /\ last.op = "add_field"
  /\ last.res = "ValueError"
  /\ IsCollection(pre, last.c)
  /\ last.f = pre.db.coll[last.c]
  /\ last.t \in ALL_TYPES
  /\ \E d \in DocNames, g \in FieldNames \ {last.f} :
       get_value(pre, last.c, d, g).k \notin {"None", "raise"}

\* C8: after a successful add_field(c, f, t, d), get_field(c, f) has type t
\* and description d, get_fields_names(c) is the previous set plus f,
\* get_value(c, doc, f) is None for every document that was in c, every
\* value stored before in c and the fields of every other collection are
\* unchanged.
C8_AddFieldFrame ==
  last.op = "add_field" /\ last.res = "ok" =>
    /\ get_field(St, last.c, last.f) =
         [err |-> "", found |-> TRUE, type |-> last.t, description |-> last.desc]
    /\ get_fields_names(St, last.c).names
         = get_fields_names(pre, last.c).names \cup {last.f}
    /\ \A d \in get_documents_names(pre, last.c).names :
         get_value(St, last.c, d, last.f) = NoneV
    /\ \A d \in DocKeys, g \in FieldNames \ {last.f} :
         get_value(St, last.c, d, g) = get_value(pre, last.c, d, g)
    /\ \A o \in CollNames \ {last.c} : Lookups(St, o).fields = Lookups(pre, o).fields

\* The arguments of the last call to remove_field name no field of an
\* existing collection, or are no strings.
RemoveFieldOfNothing ==
  /\ last.op = "remove_field"
  /\ \/ ~IsStr(last.c) \/ ~IsStr(last.f)
     \/ ~IsCollection(pre, last.c)
     \/ ~IsField(pre, last.c, last.f)

C10_RemovedFieldCanBeAddedAgain ==
  /\ last.op = "add_field"
  /\ only_removed
  /\ IsCollection(pre, last.c)
  /\ ~IsField(pre, last.c, last.f)
  /\ last.t \in ALL_TYPES
  => /\ last.res = "ok"
     /\ \A d \in DocKeys : get_value(St, last.c, d, last.f) = NoneV

-----------------------------------------------------------------------------
(* Properties of the values *)

\* C2: for every field type t and every value v valid for t, lists
\* included: after add_field(c, f, t, ...) and add_document(c, {pk: k, f:
\* v}) for a new k, get_value(c, k, f) returns a value equal to v and
\* get_document(c, k) shows every supplied field with the value supplied.
C2_StoredValueIsReturned ==
  /\ last.op = "add_document"
  /\ last.v.form = "dict"
  /\ IsCollection(pre, last.c)
  /\ pre.db.coll[last.c] \in DOMAIN last.v.fields
  /\ last.v.fields[pre.db.coll[last.c]].k = "str"
  /\ ~get_document(pre, last.c, last.v.fields[pre.db.coll[last.c]].s).found
  /\ \A g \in DOMAIN last.v.fields :
       /\ IsField(pre, last.c, g)
       /\ check_type_value(last.v.fields[g], pre.db.field[<<last.c, g>>].type)
  => LET k == last.v.fields[pre.db.coll[last.c]].s
         document_row == get_document(St, last.c, k)
     IN /\ document_row.found
        /\ \A g \in DOMAIN last.v.fields :
             /\ PyEq(get_value(St, last.c, k, g), last.v.fields[g])
             /\ PyEq(FieldRow_getattr(St, last.c, document_row, g), last.v.fields[g])

-----------------------------------------------------------------------------
(* Properties of the lookups *)

\* The document d has a row in the table of the collection c.
IsDocument(S, c, d) ==
  /\ IsCollection(S, c)
  /\ S.db.coll[c] \in S.db.tab[c].cols
  /\ \E r \in DOMAIN S.db.tab[c].rows : S.db.tab[c].rows[r][S.db.coll[c]] = PyStr(d)

\* C11: the lookups never raise on unknown names: for a collection that
\* does not exist get_collection, get_field, get_document and get_value
\* return None and get_fields, get_fields_names, get_documents and
\* get_documents_names return an empty list; for an existing collection
\* get_field of an unknown field, get_document of an unknown document and
\* get_value of an unknown field or document return None.
C11_LookupsOfUnknownNames ==
  \A c \in CollNames, d \in DocKeys, f \in FieldNames :
    /\ ~IsCollection(St, c) =>
         /\ get_collection(St, c) = NoCollection
         /\ get_field(St, c, f) = NoFieldRow
         /\ get_document(St, c, d) = NoDocument
         /\ get_value(St, c, d, f) = NoneV
         /\ get_fields(St, c) = [err |-> "", rows |-> {}]
         /\ get_fields_names(St, c) = [err |-> "", names |-> {}]
         /\ get_documents(St, c) = [err |-> "", rows |-> {}]
         /\ get_documents_names(St, c) = [err |-> "", names |-> {}]
    /\ IsCollection(St, c) /\ ~IsField(St, c, f) =>
         /\ get_field(St, c, f) = NoFieldRow
         /\ get_value(St, c, d, f) = NoneV
    /\ IsCollection(St, c) /\ ~IsDocument(St, c, d) =>
         /\ get_document(St, c, d) = NoDocument
         /\ get_value(St, c, d, f) = NoneV

-----------------------------------------------------------------------------
(* Properties of add_document *)

\* The documents of a collection and their values.
DocumentsAndValues(S, c) ==
  [documents_names |-> get_documents_names(S, c),
   documents |-> [d \in DocKeys |-> [get_document(S, c, d) EXCEPT !.r = "None"]],
   values |-> [df \in DocKeys \X FieldNames |-> get_value(S, c, df[1], df[2])]]

\* The mapping given to add_document has no entry for the primary key of c.
LacksPrimaryKey(S, c, document) ==
  /\ IsCollection(S, c)
  /\ document.form = "dict"
  /\ S.db.coll[c] \notin DOMAIN document.fields

\* The document given to add_document names a document of c.
NamesDocument(S, c, document) ==
  /\ IsCollection(S, c)
  /\ \/ document.form = "str" /\ IsDocument(S, c, document.name)
     \/ /\ document.form = "dict"
        /\ S.db.coll[c] \in DOMAIN document.fields
        /\ IsDocument(S, c, document.fields[S.db.coll[c]].s)

\* C12: add_document(c, doc) raises when c is no existing collection, when
\* a document with the primary key value of doc is already in c, or when
\* doc is a mapping without the primary key; after the failed call the
\* documents of c and their values are unchanged.
C12_AddDocumentRejects ==
  /\ last.op = "add_document"
  /\ \/ ~IsCollection(pre, last.c)
     \/ NamesDocument(pre, last.c, last.v)
     \/ LacksPrimaryKey(pre, last.c, last.v)
  => /\ last.res # "ok"
     /\ DocumentsAndValues(St, last.c) = DocumentsAndValues(pre, last.c)

\* C12 happens: add_document of a mapping that names a document of the
\* collection, which holds a value, while modifications are unsaved.
C12_Witness ==
  /\ last.op = "add_document"
  /\ last.res = "ValueError"
  /\ NamesDocument(pre, last.c, last.v)
  /\ last.v.form = "dict"
  /\ pre.unsaved_modifications
  /\ \E d \in DocNames : get_value(pre, last.c, d, "f1").k = "list"

C14_AddDocumentChecksTypes ==
  /\ last.op = "add_document"
  /\ last.v.form = "dict"
  /\ \A k \in DOMAIN last.v.fields : IsField(pre, last.c, k)
  /\ \E k \in DOMAIN last.v.fields :
       ~check_type_value(last.v.fields[k], pre.db.field[<<last.c, k>>].type)
  => /\ last.res # "ok"
     /\ DocumentsAndValues(St, last.c) = DocumentsAndValues(pre, last.c)

-----------------------------------------------------------------------------
(* Properties of the values *)

\* Every <document, field> pair of every collection but <d, f> of c has the
\* value in S that it has in T.
OtherValuesSame(S, T, c, d, f) ==
  \A c2 \in CollNames, d2 \in DocKeys, f2 \in FieldNames :
    <<c2, d2, f2>> # <<c, d, f>> =>
      get_value(S, c2, d2, f2) = get_value(T, c2, d2, f2)

\* C15: after a successful set_value(c, d, f, v), get_value(c, d, f) returns
\* v, and every other <document, field> pair of every collection has the
\* value it had.
C15_SetValueFrame ==
  last.op = "set_value" /\ last.res = "ok" =>
    /\ PyEq(get_value(St, last.c, last.d, last.f), last.v)
    /\ OtherValuesSame(St, pre, last.c, last.d, last.f)

\* C16: set_value(c, d, f, v) raises ValueError when c is no collection,
\* d no document of c, f no field of c, or v violates the type of f; after
\* the failed call get_value(c, d, f) is unchanged.
C16_SetValueRejects ==
  /\ last.op = "set_value"
  /\ \/ ~IsCollection(pre, last.c)
     \/ ~IsDocument(pre, last.c, last.d)
     \/ ~IsField(pre, last.c, last.f)
     \/ ~check_type_value(last.v, pre.db.field[<<last.c, last.f>>].type)
  => /\ last.res = "ValueError"
     /\ get_value(St, last.c, last.d, last.f) = get_value(pre, last.c, last.d, last.f)

\* C17: set_value(c, d, pk, v) on the primary key field pk of c raises
\* ValueError for every v, None included, so the primary key value of a
\* document is never changed and never becomes None.
C17_SetValueRejectsPrimaryKey ==
  /\ last.op = "set_value"
  /\ IsCollection(pre, last.c)
  /\ last.f = pre.db.coll[last.c]
  => /\ last.res = "ValueError"
     /\ \A d \in DocKeys :
          get_value(St, last.c, d, last.f) = get_value(pre, last.c, d, last.f)

\* C18: after a successful remove_value(c, d, f), get_value(c, d, f) is
\* None and every other value is unchanged; remove_value raises ValueError
\* and changes nothing when c, d or f is unknown; on a value that is
\* already None it succeeds.
C18_RemoveValue ==
  last.op = "remove_value" =>
    /\ last.res = "ok" =>
         /\ get_value(St, last.c, last.d, last.f) = NoneV
         /\ OtherValuesSame(St, pre, last.c, last.d, last.f)
    /\ \/ ~IsCollection(pre, last.c)
       \/ ~IsDocument(pre, last.c, last.d)
       \/ ~IsField(pre, last.c, last.f)
       => last.res = "ValueError" /\ St = pre
    /\ /\ IsDocument(pre, last.c, last.d)
       /\ IsField(pre, last.c, last.f)
       /\ get_value(pre, last.c, last.d, last.f) = NoneV
       => last.res = "ok"

-----------------------------------------------------------------------------
(* Properties of remove_document *)

\* C20: after a successful remove_document(c, d), get_document(c, d) is
\* None, get_value(c, d, f) is None for every field f and every other
\* document keeps its values; remove_document raises ValueError when c is
\* no collection or d no document of c.
C20_RemoveDocument ==
  last.op = "remove_document" =>
    /\ last.res = "ok" =>
         /\ get_document(St, last.c, last.d) = NoDocument
         /\ \A f \in FieldNames : get_value(St, last.c, last.d, f) = NoneV
         /\ \A c \in CollNames, d \in DocKeys, f \in FieldNames :
              <<c, d>> # <<last.c, last.d>> =>
                get_value(St, c, d, f) = get_value(pre, c, d, f)
    /\ ~IsCollection(pre, last.c) \/ ~IsDocument(pre, last.c, last.d)
       => last.res = "ValueError"

-----------------------------------------------------------------------------
(* Properties of new_value *)

\* What get_value returns in the state S, through the caches when they are on.
ValueRead(S, c, d, f) ==
  IF S.caches THEN get_value_caches(S, c, d, f).val ELSE get_value(S, c, d, f)

\* C19: new_value is add-if-absent, with and without caches: when the value
\* of <d, f> is None it stores v and get_value returns v; when a value
\* other than None is held it raises ValueError and the value is unchanged.
\* So a new_value that follows a remove_value succeeds, whatever was read
\* before.
C19_NewValueAddsIfAbsent ==
  /\ last.op = "new_value"
  /\ IsDocument(pre, last.c, last.d)
  /\ IsField(pre, last.c, last.f)
  /\ check_type_value(last.v, pre.db.field[<<last.c, last.f>>].type)
  => IF ValueRead(pre, last.c, last.d, last.f) = NoneV
     THEN /\ last.res = "ok"
          /\ PyEq(ValueRead(St, last.c, last.d, last.f), last.v)
     ELSE /\ last.res = "ValueError"
          /\ ValueRead(St, last.c, last.d, last.f)
               = ValueRead(pre, last.c, last.d, last.f)

-----------------------------------------------------------------------------
(* Properties of the documents of a collection *)

\* The name of the document a call of add_document adds to the collection c.
AddedName(S, c, document) ==
  IF document.form = "str" THEN document.name
  ELSE document.fields[S.db.coll[c]].s

\* C21: along add_document and remove_document calls, get_documents_names(c)
\* is the set of the primary key values added to c and not removed since,
\* each once, and get_documents(c) has one entry per such document: a
\* successful add_document(c, n) adds n, which was not there, to the names
\* of c, a successful remove_document(c, n) takes n out of them, both leave
\* the names of every other collection as they were, and the names, the
\* rows of the table and the entries of get_documents are as many.
C21_DocumentsNames ==
  /\ last.op \in {"add_document", "remove_document"}
  /\ last.res = "ok"
  /\ pre.dirty = {}
  => LET n == IF last.op = "add_document" THEN AddedName(pre, last.c, last.v)
              ELSE last.d
         before == get_documents_names(pre, last.c)
         after == get_documents_names(St, last.c)
     IN /\ before.err = ""
        /\ after.err = ""
        /\ get_documents(St, last.c).err = ""
        /\ IF last.op = "add_document"
           THEN n \notin before.names /\ after.names = before.names \cup {n}
           ELSE n \in before.names /\ after.names = before.names \ {n}
        /\ Cardinality(after.names) = Cardinality(DOMAIN St.db.tab[last.c].rows)
        /\ Cardinality(get_documents(St, last.c).rows) = Cardinality(after.names)
        /\ \A c \in CollNames \ {last.c} :
             get_documents_names(St, c) = get_documents_names(pre, c)

\* C21 happens: a document is added to c2 under the name a document of c1
\* has, and each collection lists it once.
C21_Witness ==
  /\ last.op = "add_document"
  /\ last.res = "ok"
  /\ last.c = "c2"
  /\ pre.dirty = {}
  /\ AddedName(pre, "c2", last.v) \in get_documents_names(St, "c1").names
  /\ AddedName(pre, "c2", last.v) \in get_documents_names(St, "c2").names
  /\ AddedName(pre, "c2", last.v) \notin get_documents_names(pre, "c2").names

-----------------------------------------------------------------------------
(* Properties of save_modifications and unsave_modifications *)

\* The database as the program finds it when the file is opened again.
Reopened(S) == Database_init(S.committed)

\* C22: commit persists: what was visible at the last save_modifications
\* is visible after a later unsave_modifications, which discards only what
\* was modified since, and is what the database shows when it is opened
\* again.
C22_CommitPersists ==
  /\ last.op = "unsave_modifications" =>
       \A c \in CollNames : Lookups(St, c) = saved[c]
  /\ last.op \in {"save_modifications", "unsave_modifications"} /\ last.res = "ok" =>
       \A c \in CollNames : Lookups(Reopened(St), c) = saved[c]

-----------------------------------------------------------------------------
(* Units of work inside a transaction: start_transaction *)

\* Calls made in this specification.
MaxSteps == 4

CanCallTransactions == nops < MaxSteps /\ ~Rejected

\* The database file of an earlier run is opened.
InitTransactions ==
  /\ db = Database_init(Populated).db
  /\ committed = Database_init(Populated).committed
  /\ meta = Database_init(Populated).meta
  /\ mtab = Database_init(Populated).mtab
  /\ table_classes = Database_init(Populated).table_classes
  /\ dirty = {}
  /\ pending = {}
  /\ inactive = FALSE
  /\ savepoints = <<>>
  /\ unsaved_modifications = FALSE
  /\ caches = FALSE
  /\ collections = NoCollections
  /\ fields = NoFields
  /\ names = NoNames
  /\ documents = NoDocuments
  /\ stream = NoStream
  /\ last = Call("open", NoArg, NoArg, NoArg, NoArg, NoArg, NoneV, "ok")
  /\ pre = St
  /\ saved = [c \in CollNames |-> Lookups(St, c)]
  /\ begun = <<>>
  /\ undone = <<>>
  /\ only_removed = TRUE
  /\ nops = 0

StartTransaction ==
  /\ CanCallTransactions
  /\ Becomes(start_transaction(St),
             Call("start_transaction", NoArg, NoArg, NoArg, NoArg, NoArg, NoneV, ""))

SaveModificationsInUnit ==
  /\ CanCallTransactions
  /\ Becomes(save_modifications(St),
             Call("save_modifications", NoArg, NoArg, NoArg, NoArg, NoArg, NoneV, ""))

UnsaveModificationsInUnit ==
  /\ CanCallTransactions
  /\ Becomes(unsave_modifications(St),
             Call("unsave_modifications", NoArg, NoArg, NoArg, NoArg, NoArg, NoneV, ""))

AddDocumentInUnit ==
  /\ CanCallTransactions
  /\ \E document \in DocNames :
       Becomes(add_document(St, "c1", StrDoc(document)),
               Call("add_document", "c1", document, NoArg, NoArg, NoArg,
                    StrDoc(document), ""))

RemoveDocumentInUnit ==
  /\ CanCallTransactions
  /\ \E document \in DocNames :
       Becomes(remove_document(St, "c1", document),
               Call("remove_document", "c1", document, NoArg, NoArg, NoArg, NoneV, ""))

SetValueInUnit ==
  /\ CanCallTransactions
  /\ \E document \in DocNames, field \in ValueFields, value \in Values :
       Becomes(set_value(St, "c1", document, field, value, FALSE),
               Call("set_value", "c1", document, field, NoArg, NoArg, value, ""))

AddFieldInUnit ==
  /\ CanCallTransactions
  /\ \E name \in ValueFields :
       Becomes(add_field(St, "c1", name, FIELD_TYPE_STRING, "None"),
               Call("add_field", "c1", NoArg, name, FIELD_TYPE_STRING, "None",
                    NoneV, ""))

RemoveFieldInUnit ==
  /\ CanCallTransactions
  /\ \E field \in ValueFields :
       Becomes(remove_field(St, "c1", field),
               Call("remove_field", "c1", NoArg, field, NoArg, NoArg, NoneV, ""))

NextTransactions ==
  \/ StartTransaction
  \/ SaveModificationsInUnit
  \/ UnsaveModificationsInUnit
  \/ AddDocumentInUnit
  \/ RemoveDocumentInUnit
  \/ SetValueInUnit
  \/ AddFieldInUnit
  \/ RemoveFieldInUnit

SpecTransactions == InitTransactions /\ [][NextTransactions]_vars

\* C23: nested units behave as savepoints: when modifications are made,
\* start_transaction is called, further modifications are made and
\* unsave_modifications is called, every lookup returns what it returned at
\* the start_transaction (the later modifications are discarded, the
\* earlier ones remain), and a following save_modifications makes that
\* state the one a reopened database shows.
C23_NestedUnits ==
  /\ last.op = "unsave_modifications"
  /\ undone # <<>>
  => /\ \A c \in CollNames : Lookups(St, c) = undone[1][c]
     /\ savepoints = <<>> =>
          /\ save_modifications(St).res = "ok"
          /\ \A c \in CollNames :
               Lookups(Reopened(save_modifications(St).st), c) = undone[1][c]

\* C23 happens: modifications are pending, a unit is started, a modification
\* is made in it and the unit is rolled back.
C23_Witness ==
  /\ last.op = "unsave_modifications"
  /\ undone # <<>>
  /\ savepoints = <<>>
  /\ St.db # pre.db
  /\ St.db # St.committed

-----------------------------------------------------------------------------
(* Schema changes and lookups with caches=True *)

\* Calls made in this specification.
MaxLookups == 4

\* The program makes calls until one raises.
CanCallSchema == nops < MaxLookups /\ last.res = "ok"

\* The database file of an earlier run is opened with caches=True.
InitSchema ==
  /\ db = Database_init(Populated).db
  /\ committed = Database_init(Populated).committed
  /\ meta = Database_init(Populated).meta
  /\ mtab = Database_init(Populated).mtab
  /\ table_classes = Database_init(Populated).table_classes
  /\ dirty = {}
  /\ pending = {}
  /\ inactive = FALSE
  /\ savepoints = <<>>
  /\ unsaved_modifications = FALSE
  /\ caches = TRUE
  /\ collections = NoCollections
  /\ fields = NoFields
  /\ names = NoNames
  /\ documents = NoDocuments
  /\ stream = NoStream
  /\ last = Call("open", NoArg, NoArg, NoArg, NoArg, NoArg, NoneV, "ok")
  /\ pre = St
  /\ saved = [c \in CollNames |-> Lookups(St, c)]
  /\ begun = <<>>
  /\ undone = <<>>
  /\ only_removed = TRUE
  /\ nops = 0

\* What a lookup returns, as the outcome of a call.
Found(l) == [st |-> l.st, res |-> IF l.row.err # "" THEN l.row.err ELSE "ok"]

GetCollectionSchema ==
  /\ CanCallSchema
  /\ \E name \in CollNames :
       \E r \in {Found(get_collection_caches(St, name))} :
         Becomes(r, Call("get_collection", name, NoArg, NoArg, NoArg, NoArg,
                         NoneV, ""))

GetFieldSchema ==
  /\ CanCallSchema
  /\ \E collection \in CollNames, name \in ValueFields :
       \E r \in {Found(get_field_caches(St, collection, name))} :
         Becomes(r, Call("get_field", collection, NoArg, name, NoArg, NoArg,
                         NoneV, ""))

GetDocumentSchema ==
  /\ CanCallSchema
  /\ \E collection \in CollNames, document \in DocNames :
       \E r \in {Found(get_document_caches(St, collection, document))} :
         Becomes(r, Call("get_document", collection, document, NoArg, NoArg,
                         NoArg, NoneV, ""))

AddCollectionSchema ==
  /\ CanCallSchema
  /\ \E name \in CollNames :
       \E r \in {add_collection_caches(St, name, "name")} :
         Becomes(r, Call("add_collection", name, NoArg, "name", NoArg, NoArg,
                         NoneV, ""))

AddFieldSchema ==
  /\ CanCallSchema
  /\ \E collection \in CollNames, name \in ValueFields :
       \E r \in {add_field_caches(St, collection, name, FIELD_TYPE_STRING, "None")} :
         Becomes(r, Call("add_field", collection, NoArg, name, FIELD_TYPE_STRING,
                         "None", NoneV, ""))

RemoveFieldSchema ==
  /\ CanCallSchema
  /\ \E collection \in CollNames, field \in ValueFields :
       \E r \in {remove_field_caches(St, collection, field)} :
         Becomes(r, Call("remove_field", collection, NoArg, field, NoArg, NoArg,
                         NoneV, ""))

AddDocumentSchema ==
  /\ CanCallSchema
  /\ \E collection \in CollNames, document \in DocNames :
       \E r \in {add_document_caches(St, collection, document)} :
         Becomes(r, Call("add_document", collection, document, NoArg, NoArg,
                         NoArg, StrDoc(document), ""))

NextSchema ==
  \/ GetCollectionSchema
  \/ GetFieldSchema
  \/ GetDocumentSchema
  \/ AddCollectionSchema
  \/ AddFieldSchema
  \/ RemoveFieldSchema
  \/ AddDocumentSchema

SpecSchema == InitSchema /\ [][NextSchema]_vars

\* What get_document returns with caches=True: whether the document is
\* found, its row and the columns of the class its row is an instance of.
DocumentView(S, c, d) ==
  LET l == get_document_caches(S, c, d)
  IN [row |-> l.row, cols |-> l.st.documents[<<c, d>>].cols]

\* C24: with caches=True every schema mutation invalidates the entries it
\* makes stale: after add_field, remove_field or add_collection on c,
\* get_document returns for every document of c a view of the row that has
\* the columns c has now; after remove_field get_field does not return the
\* removed field; and after add_collection, add_field or add_document the
\* collection, field or document created is returned by its lookup, cached
\* as absent before or not.
C24_CachesInvalidated ==
  /\ caches
  /\ last.res = "ok"
  => /\ last.op \in {"add_field", "remove_field", "add_collection"} =>
          \A d \in DocKeys :
            /\ DocumentView(St, last.c, d).row
                 = [err |-> get_document(St, last.c, d).err,
                    found |-> get_document(St, last.c, d).found,
                    r |-> get_document(St, last.c, d).r]
            /\ DocumentView(St, last.c, d).row.found =>
                 DocumentView(St, last.c, d).cols = St.db.tab[last.c].cols
     /\ last.op = "remove_field" =>
          get_field_caches(St, last.c, last.f).row = NoFieldRow
     /\ last.op = "add_collection" =>
          get_collection_caches(St, last.c).row
            = [err |-> "", found |-> TRUE, primary_key |-> last.f]
     /\ last.op = "add_field" =>
          get_field_caches(St, last.c, last.f).row
            = [err |-> "", found |-> TRUE, type |-> last.t, description |-> last.desc]
     /\ last.op = "add_document" =>
          get_document_caches(St, last.c, last.d).row.found

\* C24 happens: a field that was looked up and cached as absent is added to
\* a collection of which a document view is cached.
C24_Witness ==
  /\ caches
  /\ last.op = "add_field"
  /\ last.res = "ok"
  /\ pre.fields[<<last.c, last.f>>].set
  /\ ~pre.fields[<<last.c, last.f>>].row.found
  /\ \E d \in DocNames :
       /\ pre.documents[<<last.c, d>>].set
       /\ pre.documents[<<last.c, d>>].found

-----------------------------------------------------------------------------
(* remove_field on a backend whose statements can fail *)

\* Calls made in this specification.
MaxRebuilds == 3

\* The statements of remove_field that can fail; 0 is none of them.
RebuildSteps == 0..7

CanCallRebuild == nops < MaxRebuilds /\ ~Rejected

\* The database file of an earlier run is opened.
InitRebuild ==
  /\ db = Database_init(Populated).db
  /\ committed = Database_init(Populated).committed
  /\ meta = Database_init(Populated).meta
  /\ mtab = Database_init(Populated).mtab
  /\ table_classes = Database_init(Populated).table_classes
  /\ dirty = {}
  /\ pending = {}
  /\ inactive = FALSE
  /\ savepoints = <<>>
  /\ unsaved_modifications = FALSE
  /\ caches = FALSE
  /\ collections = NoCollections
  /\ fields = NoFields
  /\ names = NoNames
  /\ documents = NoDocuments
  /\ stream = NoStream
  /\ last = Call("open", NoArg, NoArg, NoArg, NoArg, NoArg, NoneV, "ok")
  /\ pre = St
  /\ saved = [c \in CollNames |-> Lookups(St, c)]
  /\ begun = <<>>
  /\ undone = <<>>
  /\ only_removed = TRUE
  /\ nops = 0

RemoveFieldRebuild ==
  /\ CanCallRebuild
  /\ \E field \in ValueFields, fails \in RebuildSteps :
       \E r \in {remove_field_failing(St, "c1", field, fails)} :
         Becomes(r, Call("remove_field", "c1", NoArg, field, NoArg, NoArg,
                         NoneV, ""))

AddFieldRebuild ==
  /\ CanCallRebuild
  /\ \E name \in ValueFields :
       \E r \in {add_field(St, "c1", name, FIELD_TYPE_STRING, "None")} :
         Becomes(r, Call("add_field", "c1", NoArg, name, FIELD_TYPE_STRING,
                         "None", NoneV, ""))

SetValueRebuild ==
  /\ CanCallRebuild
  /\ \E field \in ValueFields :
       \E r \in {set_value(St, "c1", "d1", field, NoneV, FALSE)} :
         Becomes(r, Call("set_value", "c1", "d1", field, NoArg, NoArg, NoneV, ""))

SaveModificationsRebuild ==
  /\ CanCallRebuild
  /\ \E r \in {save_modifications(St)} :
       Becomes(r, Call("save_modifications", NoArg, NoArg, NoArg, NoArg, NoArg,
                       NoneV, ""))

UnsaveModificationsRebuild ==
  /\ CanCallRebuild
  /\ \E r \in {unsave_modifications(St)} :
       Becomes(r, Call("unsave_modifications", NoArg, NoArg, NoArg, NoArg, NoArg,
                       NoneV, ""))

NextRebuild ==
  \/ RemoveFieldRebuild
  \/ AddFieldRebuild
  \/ SetValueRebuild
  \/ SaveModificationsRebuild
  \/ UnsaveModificationsRebuild

SpecRebuild == InitRebuild /\ [][NextRebuild]_vars

\* The values of the documents of c for every field but f are in T what
\* they are in S.
OtherFieldsSame(S, T, c, f) ==
  \A g \in FieldNames \ {f}, d \in DocKeys :
    get_value(T, c, d, g) = get_value(S, c, d, g)

\* C25: remove_field is one failure unit: when a statement of its rebuild
\* fails in a unit of work that has made no other modification, the call
\* raises, nothing is committed, and after unsave_modifications the
\* collection has its table with the columns, documents and values it had,
\* remove_field of each of its fields succeeds and leaves the values of the
\* other fields, and add_field of a name that is no field succeeds and
\* leaves the values.
C25_RemoveFieldFailureUnit ==
  /\ last.op = "remove_field"
  /\ last.res \notin {"ok", "ValueError"}
  /\ pre.db = pre.committed /\ pre.dirty = {} /\ pre.pending = {}
  /\ \A c \in CollNames : Lookups(pre, c) = saved[c]
  => LET U == unsave_modifications(St).st
     IN /\ St.committed = pre.committed
        /\ U.db.tab[last.c] = pre.db.tab[last.c]
        /\ \A c \in CollNames : Lookups(U, c) = Lookups(pre, c)
        /\ \A g \in ValueFields :
             IF IsField(U, last.c, g)
             THEN /\ remove_field(U, last.c, g).res = "ok"
                  /\ OtherFieldsSame(pre, remove_field(U, last.c, g).st, last.c, g)
             ELSE /\ add_field(U, last.c, g, FIELD_TYPE_STRING, "None").res = "ok"
                  /\ OtherFieldsSame(
                       pre, add_field(U, last.c, g, FIELD_TYPE_STRING, "None").st,
                       last.c, g)

-----------------------------------------------------------------------------
(* Filters (populse_db.filter and Database.filter_documents) *)

\* A condition of the filter language on one field: field == literal,
\* field != literal, literal IN field, field IN [literals], each possibly
\* under NOT, and the literal ALL.  The literal null is None.
Condition(op, f, v, vs) == [neg |-> FALSE, op |-> op, f |-> f, v |-> v, vs |-> vs]
ALL == Condition("ALL", NoArg, NoneV, <<>>)
Equals(f, v) == Condition("==", f, v, <<>>)
Differs(f, v) == Condition("!=", f, v, <<>>)
ValueIn(v, f) == Condition("IN", f, v, <<>>)
FieldIn(f, vs) == Condition("IN []", f, NoneV, vs)
Not(a) == [a EXCEPT !.neg = ~a.neg]

\* A filter: one condition, or the AND or the OR of two; filter_query=None
\* is no filter.
Only(a) == [op |-> "AND", args |-> <<a>>]
And(a, b) == [op |-> "AND", args |-> <<a, b>>]
Or(a, b) == [op |-> "OR", args |-> <<a, b>>]
NoFilter == [op |-> "None", args |-> <<>>]

\* A condition on the decoded value of its field, as Python evaluates it.
holds(a, value) ==
  LET h == CASE a.op = "ALL" -> TRUE
             [] a.op = "==" -> PyEq(value, a.v)
             [] a.op = "!=" -> ~PyEq(value, a.v)
             [] a.op = "IN" -> /\ value.k = "list"
                               /\ \E i \in 1..Len(value.items) :
                                    ScalarEq(value.items[i], a.v)
             [] OTHER -> \E i \in 1..Len(a.vs) : PyEq(value, a.vs[i])
  IN h # a.neg

\* The whole filter on a decoded document (a value for each field), with no
\* push-down at all.
eval_ast(filter, document) ==
  LET value(a) == IF a.op = "ALL" THEN NoneV ELSE document[a.f]
      each == {holds(filter.args[i], value(filter.args[i])) :
                 i \in 1..Len(filter.args)}
  IN IF filter.op = "OR" THEN TRUE \in each ELSE FALSE \notin each

\* SQL's three-valued logic: true, false, unknown.
Bool3(b) == IF b THEN "T" ELSE "F"
Not3(x) == CASE x = "T" -> "F" [] x = "F" -> "T" [] OTHER -> "N"
And3(x, y) ==
  IF x = "F" \/ y = "F" THEN "F" ELSE IF x = "N" \/ y = "N" THEN "N" ELSE "T"
Or3(x, y) ==
  IF x = "T" \/ y = "T" THEN "T" ELSE IF x = "N" \/ y = "N" THEN "N" ELSE "F"
IsNull3(column) == Bool3(column.k = "None")
Eq3(column, v) ==
  IF column.k = "None" \/ v.k = "None" THEN "N" ELSE Bool3(ScalarEq(column, v))

\* The push-down predicate of a condition on a scalar column, on the stored
\* value of the column: a comparison with null is IS NULL, a comparison with
\* a literal is guarded against NULL.
\* The comparison as SQL evaluates it without the guard: unknown on NULL.
sql_equals_unguarded(column, v) == Eq3(column, v)
sql_equals(column, v) ==
  IF v.k = "None" THEN IsNull3(column)
  ELSE And3(Not3(IsNull3(column)), Eq3(column, v))
sql_differs(column, v) ==
  IF v.k = "None" THEN Not3(IsNull3(column))
  ELSE Or3(IsNull3(column), Not3(Eq3(column, v)))
sql_condition(a, field_type, column) ==
  LET bound(v) == ColumnBind(field_type, python_to_column(field_type, v))
      each == {sql_equals(column, bound(a.vs[i])) : i \in 1..Len(a.vs)}
      c == CASE a.op = "==" -> sql_equals(column, bound(a.v))
             [] a.op = "!=" -> sql_differs(column, bound(a.v))
             [] OTHER -> IF "T" \in each THEN "T"
                         ELSE IF "N" \in each THEN "N" ELSE "F"
  IN IF a.neg THEN Not3(c) ELSE c

\* FilterToQuery(database, collection).transform(tree): None for a filter
\* that selects everything, a condition of the backend when every
\* condition is on a scalar column, a Python function when none is, and
\* the pair of both for an AND of the two kinds.  ALL is dropped from an
\* AND and makes an OR select everything; a condition on a list column
\* makes the whole of an OR a Python function.
NoQuery == [kind |-> "None", op |-> "AND", sql |-> <<>>, python |-> <<>>, err |-> ""]
FilterToQuery_transform(S, collection, filter) ==
  LET named(a) == a.op # "ALL"
      is_sql(a) == named(a) /\ get_field(S, collection, a.f).type \notin LIST_TYPES
      is_python(a) == named(a) /\ ~is_sql(a)
      sql == SelectSeq(filter.args, is_sql)
      python == SelectSeq(filter.args, is_python)
      conditions == SelectSeq(filter.args, named)
  IN IF \E i \in 1..Len(filter.args) :
          named(filter.args[i]) /\ get_field(S, collection, filter.args[i].f).err # ""
     THEN [NoQuery EXCEPT !.kind = "error", !.err = "InvalidRequestError"]
     ELSE IF \E i \in 1..Len(filter.args) :
               named(filter.args[i]) /\ ~get_field(S, collection, filter.args[i].f).found
     THEN [NoQuery EXCEPT !.kind = "error", !.err = "ValueError"]
     ELSE IF filter.op = "OR" /\ Len(conditions) < Len(filter.args) THEN NoQuery
     ELSE IF conditions = <<>> THEN NoQuery
     ELSE IF python = <<>>
     THEN [NoQuery EXCEPT !.kind = "sql", !.op = filter.op, !.sql = sql]
     ELSE IF sql = <<>>
     THEN [NoQuery EXCEPT !.kind = "function", !.op = filter.op, !.python = python]
     ELSE IF filter.op = "AND"
     THEN [NoQuery EXCEPT !.kind = "tuple", !.sql = sql, !.python = python]
     ELSE [NoQuery EXCEPT !.kind = "function", !.op = "OR", !.python = conditions]

filter_query(S, filter, collection) == FilterToQuery_transform(S, collection, filter)

\* The body of filter_documents, as it runs when the generator is iterated:
\* the rows of the table that session.execute(select) returns (the rows of
\* the backend: a core select does not flush the session and does not read
\* the attributes of the mapped objects), each wrapped in a FieldRow and
\* kept when the Python filter holds on it.  rows are the rows yielded and
\* names their primary keys.
NothingYielded == [err |-> "", rows |-> {}, names |-> {}]
filter_documents_query(S, collection, query) ==
  LET table == S.mtab[collection]
      stored == S.db.tab[collection]
      column(a) == field_name_to_column_name(S, collection, a.f)
      sql_each(r) ==
        {sql_condition(query.sql[i], get_field(S, collection, query.sql[i].f).type,
                       stored.rows[r][column(query.sql[i])]) :
           i \in 1..Len(query.sql)}
      selected == {r \in DOMAIN stored.rows :
                     \/ query.sql = <<>>
                     \/ IF query.op = "OR" THEN "T" \in sql_each(r)
                        ELSE sql_each(r) \subseteq {"T"}}
      row(r) == [cells |-> [c \in table.cols |-> stored.rows[r][c]]]
      attribute(r, a) == FieldRow_getattr(S, collection, row(r), a.f)
      python_each(r) ==
        {holds(query.python[i], attribute(r, query.python[i])) :
           i \in 1..Len(query.python)}
      python_filter(r) ==
        IF query.op = "OR" THEN TRUE \in python_each(r) ELSE FALSE \notin python_each(r)
      yielded == {r \in selected : query.python = <<>> \/ python_filter(r)}
      primary_key == get_collection(S, collection).primary_key
  IN IF query.kind = "error" THEN [NothingYielded EXCEPT !.err = query.err]
     ELSE IF ~table.exists THEN [NothingYielded EXCEPT !.err = "KeyError"]
     ELSE IF S.inactive THEN [NothingYielded EXCEPT !.err = "InvalidRequestError"]
     ELSE IF ~stored.exists \/ ~(table.cols \subseteq stored.cols)
     THEN [NothingYielded EXCEPT !.err = "OperationalError"]
     ELSE IF \E i \in 1..Len(query.sql) : column(query.sql[i]) \notin stored.cols
     THEN [NothingYielded EXCEPT !.err = "OperationalError"]
     ELSE IF \E r \in selected : \E i \in 1..Len(query.python) :
               IsRaised(attribute(r, query.python[i]))
     THEN [NothingYielded EXCEPT !.err = "AttributeError"]
     ELSE [err |-> "", rows |-> yielded,
           names |-> {stored.rows[r][primary_key].s : r \in yielded}]

\* filter_documents that leaves the Python filter of the query out.
filter_documents_sql_only(S, collection, filter) ==
  filter_documents_query(S, collection,
    [filter_query(S, filter, collection) EXCEPT !.python = <<>>])
\* filter_documents that selects nothing when the query is None.
filter_documents_none_is_empty(S, collection, filter) ==
  IF filter_query(S, filter, collection).kind = "None" THEN NothingYielded
  ELSE filter_documents_query(S, collection, filter_query(S, filter, collection))
\* filter_documents with a filter string (or None): the string is compiled
\* by filter_query first.
filter_documents(S, collection, filter) ==
  filter_documents_query(S, collection,
    IF filter = NoFilter THEN NoQuery ELSE filter_query(S, filter, collection))

\* The same filter on every document of the collection as get_document and
\* FieldRow decode it, with no push-down.
DecodedDocument(S, collection, document) ==
  [f \in FieldNames |-> get_value(S, collection, document, f)]
DirectlySelected(S, collection, filter) ==
  {d \in get_documents_names(S, collection).names :
     eval_ast(filter, DecodedDocument(S, collection, d))}

-----------------------------------------------------------------------------
(* Filtering the documents of a collection while their values change *)

MaxFilterCalls == 3

\* The conditions and the filters in use.
StringConditions ==
  {Equals("id", PyStr("a")), Equals("id", PyStr("b")), Equals("id", NoneV),
   Differs("id", PyStr("a")), Differs("id", NoneV),
   FieldIn("id", <<PyStr("a"), NoneV>>), FieldIn("id", <<PyStr("b")>>),
   Equals("name", PyStr("d1"))}
ListConditions ==
  {ValueIn(PyInt("1"), "f1"), ValueIn(PyInt("2"), "f1"),
   Equals("f1", NoneV), Differs("f1", NoneV),
   Equals("f1", PyList(<<PyInt("1")>>)),
   FieldIn("f1", <<PyList(<<PyInt("2")>>), NoneV>>)}
Negated ==
  {Equals("id", PyStr("a")), Equals("id", NoneV), Differs("id", PyStr("a")),
   FieldIn("id", <<PyStr("b")>>), ValueIn(PyInt("1"), "f1"), Equals("f1", NoneV)}
Conditions ==
  {ALL} \cup StringConditions \cup ListConditions \cup {Not(a) : a \in Negated}
LeftOperands == {ALL, Equals("id", PyStr("a")), Equals("f1", NoneV)}
RightOperands == {ALL, Equals("name", PyStr("d1")), Not(ValueIn(PyInt("1"), "f1"))}
Filters ==
  {NoFilter} \cup {Only(a) : a \in Conditions}
    \cup {And(a, b) : a \in LeftOperands, b \in RightOperands}
    \cup {Or(a, b) : a \in LeftOperands, b \in RightOperands}
\* What is filtered: a collection with any filter, a collection that does
\* not exist with some.
Filtered ==
  {<<"c1", filter>> : filter \in Filters}
    \cup {<<"c2", NoFilter>>, <<"c2", Only(Equals("id", PyStr("a")))>>}
FilterValues ==
  {<<"id", PyStr("a")>>, <<"id", PyStr("b")>>,
   <<"f1", PyList(<<PyInt("1")>>)>>, <<"f1", PyList(<<PyInt("2")>>)>>}

\* list(stream): the body of filter_documents runs when its generator is
\* iterated for the first time; an exhausted generator yields nothing.
iterate(S, generator) ==
  LET yielded == IF generator.state = "new"
                 THEN filter_documents(S, generator.c, generator.f)
                 ELSE NothingYielded
  IN [st |-> S, res |-> IF yielded.err = "" THEN "ok" ELSE yielded.err,
      yielded |-> yielded]

CanCallFilters == nops < MaxFilterCalls /\ ~Rejected

\* A database with a second document that has no value.
PopulatedTwo ==
  LET s1 == add_document(Database_init(Populated), "c1", StrDoc("d2")).st
  IN save_modifications(s1).st.committed

InitFilters ==
  /\ \E D \in {Populated, PopulatedTwo} :
       /\ db = Database_init(D).db
       /\ committed = Database_init(D).committed
       /\ meta = Database_init(D).meta
       /\ mtab = Database_init(D).mtab
       /\ table_classes = Database_init(D).table_classes
  /\ dirty = {}
  /\ pending = {}
  /\ inactive = FALSE
  /\ savepoints = <<>>
  /\ unsaved_modifications = FALSE
  /\ caches = FALSE
  /\ collections = NoCollections
  /\ fields = NoFields
  /\ names = NoNames
  /\ documents = NoDocuments
  /\ stream = NoStream
  /\ last = Call("open", NoArg, NoArg, NoArg, NoArg, NoArg, NoneV, "ok")
  /\ pre = St
  /\ saved = [c \in CollNames |-> Lookups(St, c)]
  /\ begun = <<>>
  /\ undone = <<>>
  /\ only_removed = TRUE
  /\ nops = 0

\* stream = filter_documents(collection, filter): nothing runs yet.
FilterDocuments ==
  /\ CanCallFilters
  /\ \E cf \in Filtered :
       Becomes(Ok(St), Call("filter_documents", cf[1], NoArg, NoArg, NoArg,
                            NoArg, cf[2], ""))

\* list(stream), at most twice for each stream
Iterate ==
  /\ CanCallFilters
  /\ stream.state # "none"
  /\ Len(stream.yielded) < 2
  /\ \E r \in {iterate(St, stream)} :
       Becomes(r, Call("iterate", stream.c, NoArg, NoArg, NoArg, NoArg,
                       r.yielded, ""))

\* set_value(collection, document, field, value), flush=False by default
SetValueFilters ==
  /\ CanCallFilters
  /\ \E document \in {"d1"}, fv \in FilterValues :
       \E r \in {set_value(St, "c1", document, fv[1], fv[2], FALSE)} :
         Becomes(r, Call("set_value", "c1", document, fv[1], NoArg, NoArg, fv[2], ""))

\* remove_value(collection, document, field), flush=True by default
RemoveValueFilters ==
  /\ CanCallFilters
  /\ \E document \in {"d1"}, field \in {"id", "f1"} :
       \E r \in {remove_value(St, "c1", document, field, TRUE)} :
         Becomes(r, Call("remove_value", "c1", document, field, NoArg, NoArg,
                         NoneV, ""))

\* new_value(collection, document, field, value), checks=True by default
NewValueFilters ==
  /\ CanCallFilters
  /\ \E document \in {"d2"}, fv \in FilterValues :
       \E r \in {new_value(St, "c1", document, fv[1], fv[2])} :
         Becomes(r, Call("new_value", "c1", document, fv[1], NoArg, NoArg, fv[2], ""))

AddDocumentFilters ==
  /\ CanCallFilters
  /\ \E r \in {add_document(St, "c1", StrDoc("d2"))} :
       Becomes(r, Call("add_document", "c1", "d2", NoArg, NoArg, NoArg,
                       StrDoc("d2"), ""))

SaveModificationsFilters ==
  /\ CanCallFilters
  /\ \E r \in {save_modifications(St)} :
       Becomes(r, Call("save_modifications", NoArg, NoArg, NoArg, NoArg, NoArg,
                       NoneV, ""))

NextFilters ==
  \/ FilterDocuments
  \/ Iterate
  \/ SetValueFilters
  \/ RemoveValueFilters
  \/ NewValueFilters
  \/ AddDocumentFilters
  \/ SaveModificationsFilters

SpecFilters == InitFilters /\ [][NextFilters]_vars

-----------------------------------------------------------------------------
(* C26: push-down and residual against direct evaluation *)

\* The first iteration of a stream ran on a session with nothing left to
\* flush.
IteratedFlushed ==
  /\ last.op = "iterate"
  /\ Len(stream.yielded) = 1
  /\ pre.dirty = {} /\ pre.pending = {}
  /\ get_collection(pre, last.c).found

-----------------------------------------------------------------------------
(* C27: comparisons with null *)

NullFields == {"id", "f1"}
\* The documents of the collection that have no value for the field.
WithoutValue(S, collection, field) ==
  {d \in get_documents_names(S, collection).names :
     get_value(S, collection, d, field) = NoneV}

C27_WitnessList ==
  /\ IteratedFlushed
  /\ stream.f = Only(Differs("f1", NoneV))
  /\ last.v.names # {}
  /\ last.v.names # get_documents_names(pre, last.c).names

-----------------------------------------------------------------------------
(* C28: ALL *)

\* The first iteration of a stream over a collection that exists.
Iterated ==
  /\ last.op = "iterate"
  /\ Len(stream.yielded) = 1
  /\ get_collection(pre, last.c).found

\* The operand of a filter of two operands that is not the ALL it has.
OtherOperand(filter) ==
  IF filter.args[1] = ALL THEN filter.args[2] ELSE filter.args[1]

-----------------------------------------------------------------------------
(* C29: filtering after writes that were not flushed *)

\* The documents whose current list value has the element.
WithElement(S, collection, field, element) ==
  {d \in get_documents_names(S, collection).names :
     LET value == get_value(S, collection, d, field)
     IN value.k = "list" /\ \E i \in 1..Len(value.items) :
                              ScalarEq(value.items[i], element)}

\* C29: the first iteration of a stream, whatever set_value, new_value and
\* remove_value calls with their default arguments came before it, yields
\* the documents on which the filter holds for the values that get_value
\* returns then; for a membership filter these are the documents whose
\* current list has the element.
C29_CurrentValues ==
  Iterated
  => /\ last.res = "ok"
     /\ last.v.names = DirectlySelected(pre, last.c, stream.f)
     /\ \A element \in {PyInt("1"), PyInt("2")} :
          (stream.f = Only(ValueIn(element, "f1")))
          => (last.v.names = WithElement(pre, last.c, "f1", element))

-----------------------------------------------------------------------------
(* C30: iterating the stream again *)

\* C30: a second iteration of the stream that comes right after the first,
\* with no call in between, yields the documents the first one yielded.
C30_ReIterable ==
  /\ last.op = "iterate"
  /\ Len(stream.yielded) = 2
  /\ stream.at[2] = stream.at[1] + 1
  => stream.yielded[2] = stream.yielded[1]

-----------------------------------------------------------------------------
(* C31: filtering a collection that does not exist *)

\* C31: the first iteration of a stream over a collection that does not
\* exist raises ValueError.
C31_UnknownCollection ==
  /\ last.op = "iterate"
  /\ Len(stream.yielded) = 1
  /\ ~get_collection(pre, last.c).found
  => last.res = "ValueError"

-----------------------------------------------------------------------------
(* C32: the column name of a field *)

MaxNameCalls == 3

\* field_name_to_column_name as the store runs it, with or without caches;
\* what it returns is kept as a string value, None for None.
NameReturned(S, collection, field) ==
  LET cached == field_name_to_column_name_caches(S, collection, field)
      plain == field_name_to_column_name(S, collection, field)
      value(name) == IF name = "None" THEN NoneV ELSE PyStr(name)
  IN IF get_collection(S, collection).err # "" /\ ~(S.caches /\ S.collections[collection].set)
     THEN [st |-> S, res |-> get_collection(S, collection).err, val |-> NoneV]
     ELSE IF S.caches THEN [st |-> cached.st, res |-> "ok", val |-> value(cached.name)]
     ELSE [st |-> S, res |-> "ok", val |-> value(plain)]

CanCallNames == nops < MaxNameCalls /\ ~Rejected

InitNames ==
  /\ \E D \in {EmptyDb, Populated} :
       /\ db = Database_init(D).db
       /\ committed = Database_init(D).committed
       /\ meta = Database_init(D).meta
       /\ mtab = Database_init(D).mtab
       /\ table_classes = Database_init(D).table_classes
  /\ dirty = {}
  /\ pending = {}
  /\ inactive = FALSE
  /\ savepoints = <<>>
  /\ unsaved_modifications = FALSE
  /\ caches \in BOOLEAN
  /\ collections = NoCollections
  /\ fields = NoFields
  /\ names = NoNames
  /\ documents = NoDocuments
  /\ stream = NoStream
  /\ last = Call("open", NoArg, NoArg, NoArg, NoArg, NoArg, NoneV, "ok")
  /\ pre = St
  /\ saved = [c \in CollNames |-> Lookups(St, c)]
  /\ begun = <<>>
  /\ undone = <<>>
  /\ only_removed = TRUE
  /\ nops = 0

FieldNameToColumnName ==
  /\ CanCallNames
  /\ \E collection \in CollNames, field \in FieldNames :
       \E r \in {NameReturned(St, collection, field)} :
         Becomes(r, Call("field_name_to_column_name", collection, NoArg, field,
                         NoArg, NoArg, r.val, ""))

AddCollectionNames ==
  /\ CanCallNames
  /\ \E name \in CollNames, primary_key \in PkNames :
       \E r \in {IF caches THEN add_collection_caches(St, name, primary_key)
                 ELSE add_collection(St, name, primary_key)} :
         Becomes(r, Call("add_collection", name, NoArg, primary_key, NoArg, NoArg,
                         NoneV, ""))

AddFieldNames ==
  /\ CanCallNames
  /\ \E collection \in CollNames, name \in {"id", "f1"} :
       \E r \in {IF caches
                 THEN add_field_caches(St, collection, name, FIELD_TYPE_STRING, "None")
                 ELSE add_field(St, collection, name, FIELD_TYPE_STRING, "None")} :
         Becomes(r, Call("add_field", collection, NoArg, name, FIELD_TYPE_STRING,
                         "None", NoneV, ""))

SaveModificationsNames ==
  /\ CanCallNames
  /\ \E r \in {save_modifications(St)} :
       Becomes(r, Call("save_modifications", NoArg, NoArg, NoArg, NoArg, NoArg,
                       NoneV, ""))

UnsaveModificationsNames ==
  /\ CanCallNames
  /\ \E r \in {unsave_modifications(St)} :
       Becomes(r, Call("unsave_modifications", NoArg, NoArg, NoArg, NoArg, NoArg,
                       NoneV, ""))

\* database.remove_collection(name): the class Database defines no such
\* method, so looking the attribute up raises.
remove_collection(S, name) == Raise(S, "AttributeError")

RemoveCollectionNames ==
  /\ CanCallNames
  /\ \E name \in CollNames :
       \E r \in {remove_collection(St, name)} :
         Becomes(r, Call("remove_collection", name, NoArg, NoArg, NoArg, NoArg,
                         NoneV, ""))

NextNames ==
  \/ FieldNameToColumnName
  \/ RemoveCollectionNames
  \/ AddCollectionNames
  \/ AddFieldNames
  \/ SaveModificationsNames
  \/ UnsaveModificationsNames

SpecNames == InitNames /\ [][NextNames]_vars

\* The name the claim gives: a function of the primary key of the
\* collection as the backend has it now, and of the field.
ColumnNameOf(S, collection, field) ==
  IF S.db.coll[collection] = NoRow THEN NoneV
  ELSE IF field = S.db.coll[collection] THEN PyStr(field)
  ELSE PyStr(md5(field))

\* C32: on a usable session, field_name_to_column_name(c, f) returns None
\* when c does not exist, f when f is the primary key of c and the hash of f
\* otherwise, with and without caches and whatever was called before.
C32_ColumnNamePure ==
  /\ last.op = "field_name_to_column_name"
  /\ ~pre.inactive
  => /\ last.res = "ok"
     /\ last.v = ColumnNameOf(pre, last.c, last.f)

-----------------------------------------------------------------------------
(* Specification of the type rule and of the value codec as functions *)

MaxChecks == 1

\* A json object (a dict), and the json types that spec.md lists among the
\* field types.
PyDict == Scalar("dict", "{'test1': 1}")
JsonTypes == {"json", "list_json"}
CheckedTypes == ALL_TYPES \cup JsonTypes
CheckedValues ==
  TypedValues \cup {PyDict, PyList(<<PyDict>>), PyList(<<PyDict, PyDict>>),
                    PyList(<<PyDict, PyInt("1")>>)}

\* What a call was given and what it returned.
GivenReturned(given, returned) == [given |-> given, returned |-> returned]

\* column_to_python(t, python_to_column(t, value)), or what is raised.
round_trip(column_type, value) ==
  LET column == python_to_column(column_type, value)
  IN IF IsRaised(column) THEN column ELSE column_to_python(column_type, column)

CanCallCodec == nops < MaxChecks

InitCodec ==
  /\ db = Database_init(EmptyDb).db
  /\ committed = Database_init(EmptyDb).committed
  /\ meta = Database_init(EmptyDb).meta
  /\ mtab = Database_init(EmptyDb).mtab
  /\ table_classes = Database_init(EmptyDb).table_classes
  /\ dirty = {}
  /\ pending = {}
  /\ inactive = FALSE
  /\ savepoints = <<>>
  /\ unsaved_modifications = FALSE
  /\ caches = FALSE
  /\ collections = NoCollections
  /\ fields = NoFields
  /\ names = NoNames
  /\ documents = NoDocuments
  /\ stream = NoStream
  /\ last = Call("open", NoArg, NoArg, NoArg, NoArg, NoArg, NoneV, "ok")
  /\ pre = St
  /\ saved = [c \in CollNames |-> Lookups(St, c)]
  /\ begun = <<>>
  /\ undone = <<>>
  /\ only_removed = TRUE
  /\ nops = 0

CheckTypeValue ==
  /\ CanCallCodec
  /\ \E value \in CheckedValues, valid_type \in CheckedTypes :
       \E returned \in {check_type_value(value, valid_type)} :
         Becomes(Ok(St),
                 Call("check_type_value", NoArg, NoArg, NoArg, valid_type, NoArg,
                      GivenReturned(value, returned), ""))

RoundTrip ==
  /\ CanCallCodec
  /\ \E value \in TypedValues, column_type \in ALL_TYPES :
       \E returned \in {round_trip(column_type, value)} :
         Becomes([st |-> St, res |-> IF IsRaised(returned) THEN returned.s ELSE "ok"],
                 Call("column_to_python", NoArg, NoArg, NoArg, column_type, NoArg,
                      GivenReturned(value, returned), ""))

NextCodec ==
  \/ CheckTypeValue
  \/ RoundTrip

SpecCodec == InitCodec /\ [][NextCodec]_vars

-----------------------------------------------------------------------------
(* C33: the type rule *)

\* The runtime type that a scalar field type asks for.
RuntimeType(t) ==
  CASE t = FIELD_TYPE_STRING -> "str"
    [] t = FIELD_TYPE_INTEGER -> "int"
    [] t = FIELD_TYPE_FLOAT -> "float"
    [] t = FIELD_TYPE_BOOLEAN -> "bool"
    [] t = "json" -> "dict"
    [] OTHER -> t
IsListType(t) == t \in LIST_TYPES \cup {"list_json"}
ElementOf(t) == IF t = "list_json" THEN "json" ELSE ElementType(t)
\* The rule for a scalar type: None, the exact runtime type, or an integer
\* for a float.
ScalarRule(v, t) ==
  \/ v.k = "None"
  \/ v.k = RuntimeType(t)
  \/ t = FIELD_TYPE_FLOAT /\ v.k = "int"
\* The rule for any type: for a list type, a list whose every element
\* satisfies the rule of the element type.
TypeRule(v, t) ==
  \/ v.k = "None"
  \/ ~IsListType(t) /\ v.k # "list" /\ ScalarRule(v, t)
  \/ /\ IsListType(t) /\ v.k = "list"
     /\ \A i \in 1..Len(v.items) : ScalarRule(v.items[i], ElementOf(t))

\* C33: check_type_value(v, t) returns what the type rule says, for every
\* value and every type, json objects and the json types included.
C33_TypeRule ==
  (last.op = "check_type_value")
  => (last.v.returned = TypeRule(last.v.given, last.t))

-----------------------------------------------------------------------------
(* C34: the round trip of the value codec *)

\* C34: for every type t and every value v that check_type_value accepts
\* for t, column_to_python(t, python_to_column(t, v)) raises nothing and
\* equals v, the empty list and the lists with None elements included.
C34_CodecRoundTrip ==
  /\ last.op = "column_to_python"
  /\ check_type_value(last.v.given, last.t)
  => /\ last.res = "ok"
     /\ PyEq(last.v.returned, last.v.given)

-----------------------------------------------------------------------------
(* C35: removing a collection *)

\* C35: remove_collection(c) of a collection that exists returns normally,
\* after it get_collection(c), get_field(c, f) and get_document(c, d) return
\* None for every f and d, add_collection(c) is accepted again and every
\* other collection keeps what its lookups return; remove_collection of a
\* collection that does not exist raises ValueError.
C35_RemoveCollection ==
  (last.op = "remove_collection")
  => IF get_collection(pre, last.c).found
     THEN /\ last.res = "ok"
          /\ ~get_collection(St, last.c).found
          /\ \A f \in FieldNames : ~get_field(St, last.c, f).found
          /\ \A d \in DocNames : ~get_document(St, last.c, d).found
          /\ add_collection(St, last.c, "name").res = "ok"
          /\ \A c \in CollNames \ {last.c} : Lookups(St, c) = Lookups(pre, c)
     ELSE last.res = "ValueError"

-----------------------------------------------------------------------------
(* Specification of two fields whose names differ by letter case only *)

MaxCloseCalls == 3

CloseNames == {"f1", "F1"}
\* The other name of the pair.
Twin(field) == IF field = "f1" THEN "F1" ELSE "f1"
CloseValues == {NoneV, PyStr("a"), PyList(<<PyInt("1")>>), PyList(<<PyInt("2")>>)}

CanCallClose == nops < MaxCloseCalls /\ ~Rejected

InitClose ==
  /\ \E D \in {OneCollection, Populated} :
       /\ db = Database_init(D).db
       /\ committed = Database_init(D).committed
       /\ meta = Database_init(D).meta
       /\ mtab = Database_init(D).mtab
       /\ table_classes = Database_init(D).table_classes
  /\ dirty = {}
  /\ pending = {}
  /\ inactive = FALSE
  /\ savepoints = <<>>
  /\ unsaved_modifications = FALSE
  /\ caches = FALSE
  /\ collections = NoCollections
  /\ fields = NoFields
  /\ names = NoNames
  /\ documents = NoDocuments
  /\ stream = NoStream
  /\ last = Call("open", NoArg, NoArg, NoArg, NoArg, NoArg, NoneV, "ok")
  /\ pre = St
  /\ saved = [c \in CollNames |-> Lookups(St, c)]
  /\ begun = <<>>
  /\ undone = <<>>
  /\ only_removed = TRUE
  /\ nops = 0

AddFieldClose ==
  /\ CanCallClose
  /\ \E name \in CloseNames, field_type \in {FIELD_TYPE_STRING, "list_int"},
        description \in {"lower case", "upper case"} :
       \E r \in {add_field(St, "c1", name, field_type, description)} :
         Becomes(r, Call("add_field", "c1", NoArg, name, field_type, description,
                         NoneV, ""))

AddDocumentClose ==
  /\ CanCallClose
  /\ \E r \in {add_document(St, "c1", StrDoc("d1"))} :
       Becomes(r, Call("add_document", "c1", "d1", NoArg, NoArg, NoArg,
                       StrDoc("d1"), ""))

SetValueClose ==
  /\ CanCallClose
  /\ \E field \in CloseNames, value \in CloseValues, flush_arg \in BOOLEAN :
       \E r \in {set_value(St, "c1", "d1", field, value, flush_arg)} :
         Becomes(r, Call("set_value", "c1", "d1", field, NoArg, NoArg, value, ""))

NextClose ==
  \/ AddFieldClose
  \/ AddDocumentClose
  \/ SetValueClose

SpecClose == InitClose /\ [][NextClose]_vars

-----------------------------------------------------------------------------
(* C37: the flag of unsaved modifications *)

Mutations ==
  {"add_collection", "add_field", "remove_field", "add_document", "remove_document",
   "set_value", "remove_value", "new_value"}

\* Nothing was written since the last commit.
NothingToSave(S) == S.db = S.committed /\ S.dirty = {} /\ S.pending = {}

\* C37: has_unsaved_modifications() is False after opening, after
\* save_modifications and after an unsave_modifications that left nothing
\* written; it is True after every successful mutation, and after an
\* unsave_modifications that undid a nested unit only and left writes of
\* the outer one.
C37_FlagAccurate ==
  /\ (last.op \in {"open", "save_modifications"} /\ last.res = "ok")
     => ~has_unsaved_modifications(St)
  /\ (last.op = "unsave_modifications" /\ last.res = "ok")
     => (has_unsaved_modifications(St) = ~NothingToSave(St))
  /\ (last.op \in Mutations /\ last.res = "ok")
     => has_unsaved_modifications(St)

-----------------------------------------------------------------------------
(* C38: a store with caches against a store without *)

\* What a store without caches holds: the session, the backend and the
\* schema of the Python side.
Uncached(S) ==
  [db |-> S.db, committed |-> S.committed, dirty |-> S.dirty, pending |-> S.pending,
   inactive |-> S.inactive, savepoints |-> S.savepoints, meta |-> S.meta,
   mtab |-> S.mtab, table_classes |-> S.table_classes,
   unsaved_modifications |-> S.unsaved_modifications]

\* The call just made, as a store without caches runs it from the same
\* session and backend; flush_arg is the flush argument of set_value and
\* remove_value.
WithoutCaches(flush_arg) ==
  CASE last.op = "set_value" ->
         set_value(pre, last.c, last.d, last.f, last.v, flush_arg)
    [] last.op = "remove_value" -> remove_value(pre, last.c, last.d, last.f, flush_arg)
    [] last.op = "new_value" -> new_value(pre, last.c, last.d, last.f, last.v)
    [] last.op = "get_value" ->
         Returned(get_value(pre, last.c, last.d, last.f), pre)
    [] OTHER ->
         [st |-> pre,
          res |-> IF get_document(pre, last.c, last.d).err # ""
                  THEN get_document(pre, last.c, last.d).err ELSE "ok"]

\* C38: every call on a store with caches returns or raises what the same
\* call returns or raises on a store without caches that is in the same
\* session and backend state, and leaves the session and the backend as
\* that call leaves them; so the two stores answer every sequence of calls
\* alike.
C38_CachesTransparent ==
  (/\ pre.caches
   /\ last.op \in {"get_value", "get_document", "set_value", "remove_value", "new_value"})
  => \E flush_arg \in BOOLEAN :
       /\ last.res = WithoutCaches(flush_arg).res
       /\ Uncached(St) = Uncached(WithoutCaches(flush_arg).st)
       /\ (last.op = "get_value")
          => (last.v = get_value(pre, last.c, last.d, last.f))

-----------------------------------------------------------------------------
(* C39: the catalog against the tables *)

\* The columns the catalog gives the table of a collection: one for each
\* registered field, the primary key among them, named by
\* field_name_to_column_name.
CatalogColumns(S, collection) ==
  {field_name_to_column_name([S EXCEPT !.inactive = FALSE], collection, f) :
     f \in {g \in FieldNames : S.db.field[<<collection, g>>] # NoField}}

\* The backend holds the table of each collection with the columns of the
\* catalog, and no other table beside the catalog tables.
PhysicalLayoutAgrees(S) ==
  \A c \in CollNames :
    /\ S.db.tab[c].exists = (S.db.coll[c] # NoRow)
    /\ S.db.tab[c].exists => (S.db.tab[c].cols = CatalogColumns(S, c))
    /\ ~S.db.tab[BackupName(c)].exists

\* self.metadata holds the Table of each collection with the columns of the
\* catalog, and no other Table beside the catalog tables.
RegisteredLayoutAgrees(S) ==
  /\ \A i \in 1..Len(S.meta) : S.meta[i] \in CatalogTables \cup CollNames
  /\ \A c \in CollNames :
       /\ S.mtab[c].exists = (S.db.coll[c] # NoRow)
       /\ S.mtab[c].exists => (S.mtab[c].cols = CatalogColumns(S, c))
       /\ ~S.mtab[BackupName(c)].exists

\* C39: after every operation that completes, the table of each collection
\* has exactly the primary key column and one column for each registered
\* field, in the backend and in the registered metadata, and no table other
\* than the catalog tables and the collection tables is registered; after
\* remove_field no backup table is left.
C39_CatalogAgreesWithLayout ==
  last.res = "ok" => (PhysicalLayoutAgrees(St) /\ RegisteredLayoutAgrees(St))

-----------------------------------------------------------------------------
(* C40: the values read through a FieldRow *)

\* The documents whose FieldRow the document cache keeps, and the fields
\* of their collections.
ViewedFields(S) ==
  {cdf \in CollNames \X DocKeys \X FieldNames :
     /\ S.documents[<<cdf[1], cdf[2]>>].set
     /\ S.documents[<<cdf[1], cdf[2]>>].found
     /\ IsDocument(S, cdf[1], cdf[2])
     /\ IsField(S, cdf[1], cdf[3])}

\* getattr(FieldRow, name) gives the decoded value that the store holds for
\* the document and the field.
ServesStored(S, collection, document, field, name) ==
  FieldRow_getattr_caches(S, collection, document, name).val
    = get_value(S, collection, document, field)

\* The FieldRow of the document keeps a decoded value of the field.
Memoised(S, collection, document, field) ==
  S.documents[<<collection, document>>].attributes[md5(field)].set

\* C40: on a usable session, the value read through the FieldRow of a
\* document by the name of a field, and the value that the FieldRow keeps
\* for the field and gives by the name of its column, are the decoded value
\* stored for the document and the field, whatever get_value, set_value,
\* remove_value and new_value calls were made before.
C40_ViewNeverStale ==
  (St.caches /\ ~St.inactive) =>
    \A cdf \in ViewedFields(St) :
      /\ ServesStored(St, cdf[1], cdf[2], cdf[3], cdf[3])
      /\ Memoised(St, cdf[1], cdf[2], cdf[3])
         => ServesStored(St, cdf[1], cdf[2], cdf[3], md5(cdf[3]))
====
